---- MODULE Spec2Model ----
(***************************************************************************)
(* A model of the ledger and flow engine of laas-api: user balances with   *)
(* optimistic compare-and-set, balance reservations, and the withdrawal,   *)
(* payment, deposit and invoice flows that run against one database.       *)
(*                                                                         *)
(* A database transaction is modelled by its reads, each a step of its     *)
(* own, and one write step: row locks make the writes of a transaction     *)
(* atomic with respect to every other writer, and a transaction that is    *)
(* dropped (an early return by `?`, or a panic) writes nothing.            *)
(***************************************************************************)
EXTENDS Integers, Sequences, FiniteSets, TLC

VARIABLES
    balance,       \* users.balance_msats, by user id
    reservations,  \* balance_reservations rows, by reservation id
    withdrawals,   \* withdrawals rows, by withdrawal id
    payments,      \* payments rows, by payment id
    deposits,      \* deposits rows, by deposit id
    tx_outs,       \* tx_outs rows, by (tx_id, v_out)
    invoices,      \* invoices rows, by invoice id
    chain,         \* the node's wallet: every output it knows, by (tx_id, v_out)
    sent,          \* the node's record of send_onchain calls: label -> their number
    paid,          \* the node's record of pay_invoice calls, by payment id
    node_invoices, \* the node's invoices, by raw payment request
    wst,           \* callers of withdrawal::start
    pay,           \* callers of payment::send
    dl,            \* Deposit listener instances
    ic,            \* callers of invoice::complete (the invoice worker)
    snd,           \* WithdrawalSender instances
    wl,            \* Withdrawal listener instances
    cw,            \* chain::Worker instances, by the listener they drive
    stream,        \* InvoiceListener instances: the subscription they hold
    credits,       \* history: balance credits committed per deposit / invoice
    resWrites,     \* history: row writes per reservation
    call           \* one application of a function of the program: input and output

dbVars == <<balance, reservations, withdrawals, payments, deposits, tx_outs, invoices>>
nodeVars == <<chain, sent, paid, node_invoices>>
procVars == <<wst, pay, dl, ic, snd, wl>>
histVars == <<credits, resWrites>>
vars == <<dbVars, nodeVars, procVars, histVars, call, cw, stream>>

----------------------------------------------------------------------------
(* Bounds of the model and constants of the program *)

MaxAmountSats == 1
MaxFeeSats == 1
InitialSats == 2
MaxBroadcasts == 2
MAX_RETRIES == 10
MSATS_PER_SAT == 1000
I32_MAX == 2147483647

Users == {"u1", "u2"}
None == <<>>
Some(x) == <<x>>
IsSome(o) == o # <<>>
Unwrap(o) == o[1]

\* btc::Sats::msats
msats(sats) == sats * MSATS_PER_SAT

----------------------------------------------------------------------------
(* balance/entities.rs *)

Balance_new(user_id, amount) ==
    [user_id |-> user_id, original_amount |-> amount, amount |-> amount]

NoBalance == Balance_new("u1", 0)

changed(b) == b.original_amount # b.amount

credit(b, amount) == [b EXCEPT !.amount = @ + amount]

NoReservation == [id |-> <<>>, user_id |-> "u1", amount |-> 0, status |-> "None"]

reserve_unchecked(b, amount, id) ==
    [ok |-> TRUE,
     balance |-> [b EXCEPT !.amount = @ - amount],
     reservation |-> [id |-> id, user_id |-> b.user_id, amount |-> amount,
                      status |-> "Pending"]]

reserve_strict(b, amount, id) ==
    IF amount >= b.amount
    THEN [ok |-> FALSE, balance |-> b, reservation |-> NoReservation]
    ELSE reserve_unchecked(b, amount, id)

\* Balance::reserve; `id` stands for the Uuid::new_v4() of the call
reserve(b, amount, id) ==
    IF amount > b.amount
    THEN [ok |-> FALSE, balance |-> b, reservation |-> NoReservation]
    ELSE [ok |-> TRUE,
          balance |-> [b EXCEPT !.amount = @ - amount],
          reservation |-> [id |-> id, user_id |-> b.user_id, amount |-> amount,
                           status |-> "Pending"]]

debit_without_effect(r) == [panic |-> r.status # "Pending", reservation |-> r]

\* Reservation::debit
debit(r) ==
    IF r.status # "Pending"
    THEN [panic |-> TRUE, reservation |-> r]
    ELSE [panic |-> FALSE, reservation |-> [r EXCEPT !.status = "Debited"]]

refund_without_credit(r, b) ==
    IF r.status # "Pending"
    THEN [panic |-> TRUE, reservation |-> r, balance |-> b]
    ELSE [panic |-> FALSE, reservation |-> [r EXCEPT !.status = "Refunded"],
          balance |-> b]

\* Reservation::refund
refund(r, b) ==
    IF r.status # "Pending"
    THEN [panic |-> TRUE, reservation |-> r, balance |-> b]
    ELSE [panic |-> FALSE, reservation |-> [r EXCEPT !.status = "Refunded"],
          balance |-> credit(b, r.amount)]

----------------------------------------------------------------------------
(* balance/mod.rs *)

\* balance::get
balance_get(user_id) == Balance_new(user_id, balance[user_id])

update_unconditional(b) == TRUE

\* balance::update: the UPDATE ... WHERE balance_msats = $3 finds its row
update_ok(b) == changed(b) => balance[b.user_id] = b.original_amount

\* balance::update: the users table after a successful update
update(b) == IF changed(b) THEN [balance EXCEPT ![b.user_id] = b.amount] ELSE balance

upsert_reservation_unguarded(r) == TRUE

\* upsert_reservation: the statement returns a row (fetch_one succeeds)
upsert_reservation_ok(r) ==
    r.id \in DOMAIN reservations => reservations[r.id].status = "Pending"

ReservationRow(r) == [user_id |-> r.user_id, amount |-> r.amount, status |-> r.status]

\* upsert_reservation: the balance_reservations table after the statement
upsert_reservation(r) ==
    [id \in DOMAIN reservations \cup {r.id} |->
        IF id = r.id THEN ReservationRow(r) ELSE reservations[id]]

\* balance::get_reservation
get_reservation(id) ==
    [id |-> id, user_id |-> reservations[id].user_id,
     amount |-> reservations[id].amount, status |-> reservations[id].status]

\* history: how often `k` was counted in `f`, and `f` with `k` counted once more
Count(f, k) == IF k \in DOMAIN f THEN f[k] ELSE 0
Bump(f, k) == [x \in DOMAIN f \cup {k} |-> IF x = k THEN Count(f, k) + 1 ELSE f[x]]
BumpWrites(id) == Bump(resWrites, id)

NoCall == [fn |-> "none"]

RECURSIVE SumOver(_, _)
SumOver(f, S) ==
    IF S = {} THEN 0
    ELSE LET x == CHOOSE y \in S : TRUE IN f[x] + SumOver(f, S \ {x})

----------------------------------------------------------------------------
(* concurrency.rs *)

retry_again_one_short(i) == i < MAX_RETRIES - 1

\* retry_loop: after a conflict in call i, is the callback called again?
retry_again(i) == i < MAX_RETRIES

----------------------------------------------------------------------------
(* The callers: each name is one call, made with the grant of UserOf *)

WStarters == {"w1", "w2"}
LedgerWStarters == {"w1"}
Payers == {"p1"}

UserOf(p) == IF p = "w2" THEN "u2" ELSE "u1"

----------------------------------------------------------------------------
(* withdrawal/entities.rs, withdrawal/mod.rs: withdrawal::start *)

NoWithdrawal ==
    [id |-> <<>>, user_id |-> "u1", reservation_id |-> <<>>, address |-> "ext",
     fee |-> 0, amount |-> 0, tx_out |-> None, confirmed |-> FALSE]

WstIdle(pc) ==
    [pc |-> pc, i |-> 0, address |-> "ext", amount |-> 0, balance |-> NoBalance,
     withdrawal |-> NoWithdrawal, reservation |-> NoReservation, result |-> "none"]

Withdrawal_start_any_amount(user_id, b, address, amount, fee, id) ==
    LET r == reserve(b, msats(amount) + msats(fee), id) IN
    IF ~r.ok
    THEN [err |-> "InsufficientBalance", balance |-> b, estimated |-> TRUE,
          withdrawal |-> NoWithdrawal, reservation |-> NoReservation]
    ELSE [err |-> "none", balance |-> r.balance, estimated |-> TRUE,
          withdrawal |-> [id |-> id, user_id |-> user_id,
                          reservation_id |-> r.reservation.id,
                          address |-> address, fee |-> fee, amount |-> amount,
                          tx_out |-> None, confirmed |-> FALSE],
          reservation |-> r.reservation]

Withdrawal_start_without_fee(user_id, b, address, amount, fee, id) ==
    IF amount <= 0
    THEN [err |-> "AmountNotPositive", balance |-> b, estimated |-> FALSE,
          withdrawal |-> NoWithdrawal, reservation |-> NoReservation]
    ELSE LET r == reserve(b, msats(amount), id) IN
         IF ~r.ok
         THEN [err |-> "InsufficientBalance", balance |-> b, estimated |-> TRUE,
               withdrawal |-> NoWithdrawal, reservation |-> NoReservation]
         ELSE [err |-> "none", balance |-> r.balance, estimated |-> TRUE,
               withdrawal |-> [id |-> id, user_id |-> user_id,
                               reservation_id |-> r.reservation.id,
                               address |-> address, fee |-> fee, amount |-> amount,
                               tx_out |-> None, confirmed |-> FALSE],
               reservation |-> r.reservation]

\* Withdrawal::start, after the grant check; `fee` is what node.estimate_fee
\* returns, `estimated` whether it was called
Withdrawal_start(user_id, b, address, amount, fee, id) ==
    IF amount <= 0
    THEN [err |-> "AmountNotPositive", balance |-> b, estimated |-> FALSE,
          withdrawal |-> NoWithdrawal, reservation |-> NoReservation]
    ELSE LET r == reserve(b, msats(amount) + msats(fee), id) IN
         IF ~r.ok
         THEN [err |-> "InsufficientBalance", balance |-> b, estimated |-> TRUE,
               withdrawal |-> NoWithdrawal, reservation |-> NoReservation]
         ELSE [err |-> "none", balance |-> r.balance, estimated |-> TRUE,
               withdrawal |-> [id |-> id, user_id |-> user_id,
                               reservation_id |-> r.reservation.id,
                               address |-> address, fee |-> fee, amount |-> amount,
                               tx_out |-> None, confirmed |-> FALSE],
               reservation |-> r.reservation]

\* withdrawal::queries::upsert, the withdrawals row
WithdrawalRow(w) ==
    [user_id |-> w.user_id, reservation_id |-> w.reservation_id,
     address |-> w.address, fee_sats |-> w.fee, amount_sats |-> w.amount,
     tx |-> IF IsSome(w.tx_out)
            THEN Some(<<Unwrap(w.tx_out).tx.id, Unwrap(w.tx_out).v_out>>)
            ELSE None,
     confirmed |-> w.confirmed]

Withdrawal_upsert(w) ==
    [id \in DOMAIN withdrawals \cup {w.id} |->
        IF id = w.id THEN WithdrawalRow(w) ELSE withdrawals[id]]

\* the caller enters withdrawal::start
WStartCall(p, address, amount) ==
    /\ wst[p].pc = "idle"
    /\ wst' = [wst EXCEPT ![p] = [WstIdle("load") EXCEPT
                  !.i = 1, !.amount = amount, !.address = address]]
    /\ UNCHANGED <<call, cw, stream>>
    /\ UNCHANGED <<dbVars, nodeVars, pay, dl, ic, snd, wl, histVars>>

\* one iteration of the retry block, up to the first write
WStartLoad(p, fee) ==
    /\ wst[p].pc = "load"
    /\   LET s == wst[p]
             r == Withdrawal_start(UserOf(p), balance_get(UserOf(p)), s.address,
                                   s.amount, fee, <<p, s.i>>)
         IN wst' = [wst EXCEPT ![p] =
                IF r.err # "none"
                THEN [WstIdle("done") EXCEPT !.i = s.i, !.result = r.err]
                ELSE [s EXCEPT !.pc = "write", !.balance = r.balance,
                               !.withdrawal = r.withdrawal,
                               !.reservation = r.reservation]]
    /\ UNCHANGED <<call, cw, stream>>
    /\ UNCHANGED <<dbVars, nodeVars, pay, dl, ic, snd, wl, histVars>>

\* balance::update, upsert_reservation, queries::upsert, commit
WStartWrite(p) ==
    /\ wst[p].pc = "write"
    /\ LET s == wst[p] IN
       IF update_ok(s.balance)
       THEN IF upsert_reservation_ok(s.reservation)
            THEN /\ balance' = update(s.balance)
                 /\ reservations' = upsert_reservation(s.reservation)
                 /\ resWrites' = BumpWrites(s.reservation.id)
                 /\ withdrawals' = Withdrawal_upsert(s.withdrawal)
                 /\ wst' = [wst EXCEPT ![p] = [s EXCEPT !.pc = "done", !.result = "ok",
                                                  !.balance = NoBalance]]
            ELSE /\ wst' = [wst EXCEPT ![p] =
                        [WstIdle("done") EXCEPT !.i = s.i, !.result = "panic"]]
                 /\ UNCHANGED <<balance, reservations, resWrites, withdrawals>>
       ELSE /\ wst' = [wst EXCEPT ![p] =
                   IF retry_again(s.i)
                   THEN [WstIdle("load") EXCEPT !.i = s.i + 1, !.amount = s.amount,
                                                !.address = s.address]
                   ELSE [WstIdle("done") EXCEPT !.i = s.i, !.result = "ConflictError"]]
            /\ UNCHANGED <<balance, reservations, resWrites, withdrawals>>
    /\ UNCHANGED <<call, cw, stream>>
    /\ UNCHANGED <<payments, deposits, tx_outs, invoices, nodeVars, pay, dl, ic, snd, wl,
                   credits>>


----------------------------------------------------------------------------
(* ln/node.rs: payment errors; payment/entities.rs, payment/mod.rs *)

PaymentErrors ==
    {"Unknown", "InvoiceExpired", "InvoiceAlreadyPaid", "TimedOut", "NoRouteFound",
     "InvalidPaymentDetails", "InsufficientLiquidity"}

\* what Node::probe_fee returns: the fee, or an error
ProbeOk(fee) == [ok |-> TRUE, fee |-> fee, err |-> "none"]
ProbeErr(e) == [ok |-> FALSE, fee |-> 0, err |-> e]
ProbeResults(errors) ==
    {ProbeOk(msats(f)) : f \in 0..MaxFeeSats}
        \cup {ProbeErr(e) : e \in errors \ {"InvalidPaymentDetails"}}

NoPayment ==
    [id |-> <<>>, user_id |-> "u1", amount |-> 0, invoice |-> "", has_amount |-> FALSE,
     fee |-> None, reservation_id |-> None, status |-> "None", reason |-> ""]

PayIdle(pc) ==
    [pc |-> pc, i |-> 0, payment |-> NoPayment, balance |-> NoBalance,
     reservation |-> NoReservation, result |-> "none"]

\* the payment limits of the configuration
PaymentLimits == [min |-> 1, max |-> msats(2), daily |-> msats(3)]

\* RawInvoice::parse; an invoice is its payment request and the amount in it
Unparsable == {"garbage"}
RawInvoice_parse(invoice) == [ok |-> invoice.raw \notin Unparsable, amount |-> invoice.amount]

CashLimits_check_min_exclusive(limits, amounts) ==
    IF amounts.amount <= limits.min THEN "AmountTooLow"
    ELSE IF amounts.amount > limits.max THEN "AmountTooHigh"
    ELSE IF amounts.daily_total + amounts.amount > limits.daily THEN "DailyLimitExceeded"
    ELSE "Ok"

\* CashLimits::check
CashLimits_check(limits, amounts) ==
    IF amounts.amount < limits.min THEN "AmountTooLow"
    ELSE IF amounts.amount > limits.max THEN "AmountTooHigh"
    ELSE IF amounts.daily_total + amounts.amount > limits.daily THEN "DailyLimitExceeded"
    ELSE "Ok"

\* payment::queries::daily_total: SUM(CAST(amount_msats AS INTEGER)) over the
\* rows of the user, every row being younger than a day; the cast of a row
\* above I32_MAX is an error and the call panics
payment_daily_total(user_id) ==
    LET rows == {id \in DOMAIN payments : payments[id].user_id = user_id} IN
    [panic |-> \E id \in rows : payments[id].amount_msats > I32_MAX,
     sum |-> SumOver([id \in rows |-> payments[id].amount_msats], rows)]

Payment_create_unlimited(user_id, invoice, amount, limits, daily_total, id) ==
    LET parsed == RawInvoice_parse(invoice) IN
    IF ~parsed.ok
    THEN [err |-> "InvalidInvoice", payment |-> NoPayment]
    ELSE [err |-> "none",
          payment |-> [id |-> id, user_id |-> user_id,
                       amount |-> IF IsSome(amount) THEN Unwrap(amount)
                                  ELSE IF IsSome(parsed.amount) THEN Unwrap(parsed.amount)
                                  ELSE 0,
                       invoice |-> invoice.raw, has_amount |-> IsSome(parsed.amount),
                       fee |-> None, reservation_id |-> None,
                       status |-> "New", reason |-> ""]]

\* Payment::create
Payment_create(user_id, invoice, amount, limits, daily_total, id) ==
    LET parsed == RawInvoice_parse(invoice) IN
    IF ~parsed.ok
    THEN [err |-> "InvalidInvoice", payment |-> NoPayment]
    ELSE IF IsSome(parsed.amount) /\ IsSome(amount)
    THEN [err |-> "AmountSpecifiedTwice", payment |-> NoPayment]
    ELSE IF ~IsSome(parsed.amount) /\ ~IsSome(amount)
    THEN [err |-> "AmountNotSpecified", payment |-> NoPayment]
    ELSE LET a == IF IsSome(amount) THEN Unwrap(amount) ELSE Unwrap(parsed.amount)
             c == CashLimits_check(limits, [amount |-> a, daily_total |-> daily_total])
         IN IF c # "Ok"
            THEN [err |-> c, payment |-> NoPayment]
            ELSE [err |-> "none",
                  payment |-> [id |-> id, user_id |-> user_id, amount |-> a,
                               invoice |-> invoice.raw,
                               has_amount |-> IsSome(parsed.amount),
                               fee |-> None, reservation_id |-> None,
                               status |-> "New", reason |-> ""]]

\* Payment::fail, the canonical reason strings
fail_reason(e) ==
    CASE e = "Unknown" -> "UNKNOWN"
      [] e = "InvoiceExpired" -> "INVOICE_EXPIRED"
      [] e = "InvoiceAlreadyPaid" -> "INVOICE_ALREADY_PAID"
      [] e = "TimedOut" -> "TIMED_OUT"
      [] e = "NoRouteFound" -> "NO_ROUTE_FOUND"
      [] e = "InvalidPaymentDetails" -> "INVALID_PAYMENT_DETAILS"
      [] e = "InsufficientLiquidity" -> "INSUFFICIENT_LIQUIDITY"

fail_as_unknown(payment, e) == [payment EXCEPT !.status = "Failed", !.reason = "UNKNOWN"]

\* Payment::fail
fail(payment, e) == [payment EXCEPT !.status = "Failed", !.reason = fail_reason(e)]

\* Payment::prepare; `probe` is what node.probe_fee returns
Payment_prepare(payment, b, probe, id) ==
    IF payment.status # "New" \/ payment.user_id # b.user_id
    THEN [result |-> "panic", payment |-> payment, balance |-> b,
          reservation |-> NoReservation]
    ELSE IF probe.ok
    THEN LET r == reserve(b, payment.amount + probe.fee, id) IN
         IF ~r.ok
         THEN [result |-> "InsufficientBalance", payment |-> payment, balance |-> b,
               reservation |-> NoReservation]
         ELSE [result |-> "ok",
               payment |-> [payment EXCEPT !.fee = Some(probe.fee),
                                           !.reservation_id = Some(r.reservation.id),
                                           !.status = "Ready"],
               balance |-> r.balance, reservation |-> r.reservation]
    ELSE [result |-> probe.err, payment |-> fail(payment, probe.err), balance |-> b,
          reservation |-> NoReservation]

Payment_send_never_panics(payment, b, r) == FALSE

\* Payment::send, the checks before node.pay_invoice is called
Payment_send_panics(payment, b, r) ==
    \/ payment.user_id # b.user_id
    \/ payment.status # "Ready"
    \/ r.status # "Pending"
    \/ payment.reservation_id # Some(r.id)
    \/ ~IsSome(payment.fee)

Payment_send_without_refund(payment, b, r, outcome) ==
    IF outcome = "Ok"
    THEN [result |-> "ok", payment |-> [payment EXCEPT !.status = "Succeeded"],
          balance |-> b, reservation |-> debit(r).reservation]
    ELSE IF outcome = "Unknown"
    THEN [result |-> "Unknown", payment |-> payment, balance |-> b, reservation |-> r]
    ELSE [result |-> outcome, payment |-> fail(payment, outcome),
          balance |-> b, reservation |-> r]

Payment_send_refunding_unknown(payment, b, r, outcome) ==
    IF outcome = "Ok"
    THEN [result |-> "ok", payment |-> [payment EXCEPT !.status = "Succeeded"],
          balance |-> b, reservation |-> debit(r).reservation]
    ELSE [result |-> outcome, payment |-> payment,
          balance |-> refund(r, b).balance, reservation |-> refund(r, b).reservation]

\* Payment::send, after node.pay_invoice returned `outcome`
Payment_send(payment, b, r, outcome) ==
    IF outcome = "Ok"
    THEN [result |-> "ok", payment |-> [payment EXCEPT !.status = "Succeeded"],
          balance |-> b, reservation |-> debit(r).reservation]
    ELSE IF outcome = "Unknown"
    THEN [result |-> "Unknown", payment |-> payment, balance |-> b, reservation |-> r]
    ELSE [result |-> outcome, payment |-> fail(payment, outcome),
          balance |-> refund(r, b).balance, reservation |-> refund(r, b).reservation]

\* payment::queries::status_to_i32
status_to_i32(status) ==
    CASE status = "New" -> 0
      [] status = "Ready" -> 0
      [] status = "Succeeded" -> 2
      [] status = "Failed" -> 3

\* payment::queries::upsert, the payments row
PaymentRow(payment) ==
    [user_id |-> payment.user_id, reservation_id |-> payment.reservation_id,
     amount_msats |-> payment.amount, fee_msats |-> payment.fee,
     invoice |-> payment.invoice, status |-> status_to_i32(payment.status),
     failure_reason |-> IF payment.status = "Failed" THEN Some(payment.reason) ELSE None]

Payment_upsert(payment) ==
    [id \in DOMAIN payments \cup {payment.id} |->
        IF id = payment.id THEN PaymentRow(payment) ELSE payments[id]]


\* payment::send up to the first retry block: daily_total, Payment::create and
\* the New row
PayCall(p, invoice, amount) ==
    /\ pay[p].pc = "idle"
    /\   LET t == payment_daily_total(UserOf(p))
             c == Payment_create(UserOf(p), invoice, amount, PaymentLimits, t.sum, p)
         IN
         IF t.panic
         THEN /\ pay' = [pay EXCEPT ![p] = [PayIdle("done") EXCEPT !.result = "panic"]]
              /\ UNCHANGED payments
         ELSE IF c.err # "none"
         THEN /\ pay' = [pay EXCEPT ![p] = [PayIdle("done") EXCEPT !.result = c.err]]
              /\ UNCHANGED payments
         ELSE /\ payments' = Payment_upsert(c.payment)
              /\ pay' = [pay EXCEPT ![p] =
                     [PayIdle("prepare") EXCEPT !.i = 1, !.payment = c.payment]]
    /\ UNCHANGED <<call, cw, stream>>
    /\ UNCHANGED <<balance, reservations, withdrawals, deposits, tx_outs, invoices,
                   nodeVars, wst, dl, ic, snd, wl, histVars>>

\* first retry block: balance::get and Payment::prepare
PayPrepareLoad(p, probe) ==
    /\ pay[p].pc = "prepare"
    /\   LET s == pay[p]
             r == Payment_prepare(s.payment, balance_get(UserOf(p)), probe, <<p, s.i>>)
         IN pay' = [pay EXCEPT ![p] =
                IF r.result = "panic"
                THEN [PayIdle("done") EXCEPT !.i = s.i, !.result = "panic"]
                ELSE [s EXCEPT !.pc = "prepare_write", !.payment = r.payment,
                               !.balance = r.balance, !.reservation = r.reservation,
                               !.result = r.result]]
    /\ UNCHANGED <<call, cw, stream>>
    /\ UNCHANGED <<dbVars, nodeVars, wst, dl, ic, snd, wl, histVars>>

\* first retry block: upsert_reservation, queries::upsert, balance::update, commit
PayPrepareWrite(p) ==
    /\ pay[p].pc = "prepare_write"
    /\ LET s == pay[p] IN
       IF s.result = "ok" /\ ~upsert_reservation_ok(s.reservation)
       THEN /\ pay' = [pay EXCEPT ![p] =
                   [PayIdle("done") EXCEPT !.i = s.i, !.result = "panic"]]
            /\ UNCHANGED <<balance, reservations, resWrites, payments>>
       ELSE IF ~update_ok(s.balance)
       THEN /\ pay' = [pay EXCEPT ![p] =
                   IF retry_again(s.i)
                   THEN [PayIdle("prepare") EXCEPT !.i = s.i + 1, !.payment = s.payment]
                   ELSE [PayIdle("done") EXCEPT !.i = s.i, !.result = "ConflictError"]]
            /\ UNCHANGED <<balance, reservations, resWrites, payments>>
       ELSE /\ balance' = update(s.balance)
            /\ reservations' = IF s.result = "ok" THEN upsert_reservation(s.reservation)
                               ELSE reservations
            /\ resWrites' = IF s.result = "ok" THEN BumpWrites(s.reservation.id)
                            ELSE resWrites
            /\ payments' = Payment_upsert(s.payment)
            /\ pay' = [pay EXCEPT ![p] =
                   IF s.result = "ok"
                   THEN [PayIdle("send") EXCEPT !.i = 1, !.payment = s.payment]
                   ELSE [PayIdle("done") EXCEPT !.i = s.i, !.result = s.result]]
    /\ UNCHANGED <<call, cw, stream>>
    /\ UNCHANGED <<withdrawals, deposits, tx_outs, invoices, nodeVars, wst, dl, ic, snd,
                   wl, credits>>

\* second retry block: balance::get, get_reservation and Payment::send
PaySendLoad(p, outcome) ==
    /\ pay[p].pc = "send"
    /\ LET s == pay[p]
           b == balance_get(UserOf(p))
           r == get_reservation(Unwrap(s.payment.reservation_id))
       IN IF Payment_send_panics(s.payment, b, r)
          THEN /\ pay' = [pay EXCEPT ![p] =
                      [PayIdle("done") EXCEPT !.i = s.i, !.result = "panic"]]
               /\ UNCHANGED paid
          ELSE   LET o == Payment_send(s.payment, b, r, outcome) IN
                 /\ paid' = [paid EXCEPT ![p] = @ + 1]
                 /\ pay' = [pay EXCEPT ![p] =
                        [s EXCEPT !.pc = "send_write", !.payment = o.payment,
                                  !.balance = o.balance, !.reservation = o.reservation,
                                  !.result = o.result]]
    /\ UNCHANGED <<call, cw, stream>>
    /\ UNCHANGED <<dbVars, chain, sent, node_invoices, wst, dl, ic, snd, wl, histVars>>

\* second retry block: upsert_reservation, queries::upsert, balance::update, commit
PaySendWrite(p) ==
    /\ pay[p].pc = "send_write"
    /\ LET s == pay[p] IN
       IF ~upsert_reservation_ok(s.reservation)
       THEN /\ pay' = [pay EXCEPT ![p] =
                   [PayIdle("done") EXCEPT !.i = s.i, !.result = "panic"]]
            /\ UNCHANGED <<balance, reservations, resWrites, payments>>
       ELSE IF ~update_ok(s.balance)
       THEN /\ pay' = [pay EXCEPT ![p] =
                   IF retry_again(s.i)
                   THEN [PayIdle("send") EXCEPT !.i = s.i + 1, !.payment = s.payment]
                   ELSE [PayIdle("done") EXCEPT !.i = s.i, !.result = "ConflictError"]]
            /\ UNCHANGED <<balance, reservations, resWrites, payments>>
       ELSE /\ balance' = update(s.balance)
            /\ reservations' = upsert_reservation(s.reservation)
            /\ resWrites' = BumpWrites(s.reservation.id)
            /\ payments' = Payment_upsert(s.payment)
            /\ pay' = [pay EXCEPT ![p] =
                   [PayIdle("done") EXCEPT !.i = s.i, !.result = s.result]]
    /\ UNCHANGED <<call, cw, stream>>
    /\ UNCHANGED <<withdrawals, deposits, tx_outs, invoices, nodeVars, wst, dl, ic, snd,
                   wl, credits>>


----------------------------------------------------------------------------
(* btc.rs, the node's wallet, and the deposit_addresses table *)

FIRST_BLOCK == 100
NUM_BLOCKS_ONE_MONTH == 4320

\* the heights a transaction may be mined at: in the first stride searched by
\* Node::get_tx, and past it
MineHeights == {FIRST_BLOCK + 1, FIRST_BLOCK + NUM_BLOCKS_ONE_MONTH + 1}

\* btc::TxOut as the node reports the output `k` of its wallet
TxOutOf(k) ==
    [tx |-> [id |-> k[1], block_height |-> chain[k].block_height],
     address |-> chain[k].address, v_out |-> k[2], amount |-> chain[k].amount]

NoTxId == <<"", 0, 0>>
NoTxOut == [tx |-> [id |-> NoTxId, block_height |-> None], address |-> "", v_out |-> 0,
            amount |-> 0]

\* Tx::is_confirmed
is_confirmed(tx) == IsSome(tx.block_height)

KeyOf(tx_out) == <<tx_out.tx.id, tx_out.v_out>>

\* deposit_addresses rows: the address and the user it was generated for
deposit_addresses == ("a1" :> "u1")

\* a block with the transaction of output k is mined
Mine(k, h) ==
    /\ ~IsSome(chain[k].block_height)
    /\ chain' = [chain EXCEPT ![k].block_height = Some(h)]
    /\ UNCHANGED <<call, cw, stream>>
    /\ UNCHANGED <<dbVars, sent, paid, node_invoices, procVars, histVars>>

----------------------------------------------------------------------------
(* deposit/entities.rs, deposit/mod.rs: the Deposit listener *)

DepListeners == {"d1", "d2"}

NoDeposit == [id |-> <<>>, user_id |-> "u1", tx_out |-> NoTxOut, confirmed |-> FALSE]

DlIdle(pc) ==
    [pc |-> pc, i |-> 0, tx_out |-> NoTxOut, deposit |-> NoDeposit, is_new |-> FALSE,
     balance |-> NoBalance, result |-> "none"]

\* deposit::queries::get: the deposits row of the output joined with its tx_outs row
Deposit_get(key) ==
    LET ids == {id \in DOMAIN deposits : deposits[id].tx = key} IN
    IF ids = {} THEN None
    ELSE LET id == CHOOSE x \in ids : TRUE IN
         Some([id |-> id, user_id |-> deposits[id].user_id,
               tx_out |-> [tx |-> [id |-> key[1],
                                   block_height |-> tx_outs[key].block_height],
                           address |-> tx_outs[key].address, v_out |-> key[2],
                           amount |-> tx_outs[key].amount_sats],
               confirmed |-> deposits[id].confirmed])

start_deposit_of_other_user(user_id, tx_out, id) ==
    [id |-> id, user_id |-> "u2", tx_out |-> tx_out, confirmed |-> FALSE]

\* Address::start_deposit
start_deposit(user_id, tx_out, id) ==
    [id |-> id, user_id |-> user_id, tx_out |-> tx_out, confirmed |-> FALSE]

Deposit_confirm_in_sats(deposit, tx_out, b) ==
    IF deposit.confirmed \/ tx_out.tx.id # deposit.tx_out.tx.id
                         \/ deposit.user_id # b.user_id
    THEN [panic |-> TRUE, deposit |-> deposit, balance |-> b]
    ELSE [panic |-> FALSE,
          deposit |-> [deposit EXCEPT !.tx_out = tx_out, !.confirmed = TRUE],
          balance |-> credit(b, tx_out.amount)]

\* Deposit::confirm
Deposit_confirm(deposit, tx_out, b) ==
    IF deposit.confirmed \/ tx_out.tx.id # deposit.tx_out.tx.id
                         \/ deposit.user_id # b.user_id
    THEN [panic |-> TRUE, deposit |-> deposit, balance |-> b]
    ELSE [panic |-> FALSE,
          deposit |-> [deposit EXCEPT !.tx_out = tx_out, !.confirmed = TRUE],
          balance |-> credit(b, msats(tx_out.amount))]

\* the tx_outs row written by the upserts of deposits and withdrawals
TxOut_upsert(tx_out) ==
    [k \in DOMAIN tx_outs \cup {KeyOf(tx_out)} |->
        IF k = KeyOf(tx_out)
        THEN [block_height |-> tx_out.tx.block_height, address |-> tx_out.address,
              amount_sats |-> tx_out.amount]
        ELSE tx_outs[k]]

Deposit_unique_unchecked(deposit) == TRUE

\* the unique index deposit_tx_id_v_out admits the row of queries::upsert
Deposit_unique_ok(deposit) ==
    \A id \in DOMAIN deposits :
        deposits[id].tx = KeyOf(deposit.tx_out) => id = deposit.id

\* deposit::queries::upsert, the deposits row
Deposit_upsert(deposit) ==
    [id \in DOMAIN deposits \cup {deposit.id} |->
        IF id = deposit.id
        THEN [user_id |-> deposit.user_id, tx |-> KeyOf(deposit.tx_out),
              address |-> deposit.tx_out.address, confirmed |-> deposit.confirmed]
        ELSE deposits[id]]

\* the chain worker hands an output of the wallet to Listener::process
DepositProcess(p) ==
    /\ dl[p].pc = "idle"
    /\ \E k \in DOMAIN chain :
         dl' = [dl EXCEPT ![p] = [DlIdle("get") EXCEPT !.i = 1, !.tx_out = TxOutOf(k)]]
    /\ UNCHANGED <<call, cw, stream>>
    /\ UNCHANGED <<dbVars, nodeVars, wst, pay, ic, snd, wl, histVars>>

\* get_or_start: queries::get, and start for an output with no deposit
DepositGet(p) ==
    /\ dl[p].pc = "get"
    /\ LET s == dl[p]
           found == Deposit_get(KeyOf(s.tx_out))
           known == s.tx_out.address \in DOMAIN deposit_addresses
           deposit == IF IsSome(found) THEN Unwrap(found)
                      ELSE start_deposit(deposit_addresses[s.tx_out.address], s.tx_out,
                                         <<p, KeyOf(s.tx_out)>>)
       IN dl' = [dl EXCEPT ![p] =
              IF ~IsSome(found) /\ ~known
              THEN [DlIdle("idle") EXCEPT !.result = "unrelated"]
              ELSE IF is_confirmed(s.tx_out.tx) /\ ~deposit.confirmed
              THEN [s EXCEPT !.pc = "balance", !.deposit = deposit,
                             !.is_new = ~IsSome(found)]
              ELSE IF ~IsSome(found)
              THEN [s EXCEPT !.pc = "write", !.deposit = deposit, !.is_new = TRUE]
              ELSE [DlIdle("idle") EXCEPT !.result = "not confirming"]]
    /\ UNCHANGED <<call, cw, stream>>
    /\ UNCHANGED <<dbVars, nodeVars, wst, pay, ic, snd, wl, histVars>>

\* balance::get and Deposit::confirm
DepositBalance(p) ==
    /\ dl[p].pc = "balance"
    /\ LET s == dl[p]
           c == Deposit_confirm(s.deposit, s.tx_out, balance_get(s.deposit.user_id))
       IN dl' = [dl EXCEPT ![p] =
              IF c.panic THEN [DlIdle("idle") EXCEPT !.result = "panic"]
              ELSE [s EXCEPT !.pc = "write", !.deposit = c.deposit,
                             !.balance = c.balance]]
    /\ UNCHANGED <<call, cw, stream>>
    /\ UNCHANGED <<dbVars, nodeVars, wst, pay, ic, snd, wl, histVars>>

\* queries::upsert, balance::update, commit; a ConflictError retries the block
DepositWrite(p) ==
    /\ dl[p].pc = "write"
    /\ LET s == dl[p] IN
       IF Deposit_unique_ok(s.deposit) /\ update_ok(s.balance)
       THEN /\ tx_outs' = TxOut_upsert(s.deposit.tx_out)
            /\ deposits' = Deposit_upsert(s.deposit)
            /\ balance' = update(s.balance)
            /\ credits' = IF s.deposit.confirmed
                          THEN Bump(credits, KeyOf(s.deposit.tx_out))
                          ELSE credits
            /\ dl' = [dl EXCEPT ![p] =
                   [DlIdle("idle") EXCEPT
                       !.result = IF s.deposit.confirmed THEN "confirmed" ELSE "started"]]
       ELSE /\ dl' = [dl EXCEPT ![p] =
                   IF retry_again(s.i)
                   THEN [DlIdle("get") EXCEPT !.i = s.i + 1, !.tx_out = s.tx_out]
                   ELSE [DlIdle("idle") EXCEPT !.result = "panic"]]
            /\ UNCHANGED <<tx_outs, deposits, balance, credits>>
    /\ UNCHANGED <<call, cw, stream>>
    /\ UNCHANGED <<reservations, withdrawals, payments, invoices, nodeVars, wst, pay, ic,
                   snd, wl, resWrites>>


----------------------------------------------------------------------------
(* invoice/entities.rs, invoice/mod.rs: settling an invoice *)

Completers == {"c1"}

NoSettled == [amount |-> 0, settle_index |-> 0, raw |-> ""]

NoInvoice == [id |-> "", user_id |-> "u1", amount |-> 0, raw |-> "", settlement |-> None]

IcIdle(pc) ==
    [pc |-> pc, i |-> 0, invoice |-> NoInvoice, settled |-> NoSettled,
     balance |-> NoBalance, result |-> "none"]

\* ln::SettledInvoice as Node::get_invoice_status and the stream build it
SettledInvoiceOf(raw) ==
    [amount |-> node_invoices[raw].amt_paid_msat,
     settle_index |-> node_invoices[raw].settle_index, raw |-> raw]

\* invoice::queries::get_by_invoice
get_by_invoice(raw) ==
    LET ids == {id \in DOMAIN invoices : invoices[id].invoice = raw} IN
    IF ids = {} THEN None
    ELSE LET id == CHOOSE x \in ids : TRUE IN
         Some([id |-> id, user_id |-> invoices[id].user_id,
               amount |-> invoices[id].amount_msats, raw |-> raw,
               settlement |-> invoices[id].settlement])

is_settled_never(invoice) == FALSE

\* Invoice::is_settled
is_settled(invoice) == IsSome(invoice.settlement)

\* Invoice::settle
settle(invoice, b, settled_invoice) ==
    IF is_settled(invoice) \/ invoice.user_id # b.user_id
                           \/ settled_invoice.raw # invoice.raw
    THEN [panic |-> TRUE, invoice |-> invoice, balance |-> b]
    ELSE [panic |-> FALSE,
          invoice |-> [invoice EXCEPT !.settlement =
                          Some([amount |-> settled_invoice.amount,
                                settle_index |-> settled_invoice.settle_index])],
          balance |-> credit(b, settled_invoice.amount)]

\* invoice::queries::upsert, the invoices row
Invoice_upsert(invoice) ==
    [id \in DOMAIN invoices \cup {invoice.id} |->
        IF id = invoice.id
        THEN [user_id |-> invoice.user_id, amount_msats |-> invoice.amount,
              invoice |-> invoice.raw, settlement |-> invoice.settlement]
        ELSE invoices[id]]

\* a payer settles an invoice at the node, which gives it the next settle index
NodeSettle(raw) ==
    /\ node_invoices[raw].settle_index = 0
    /\ LET top == CHOOSE n \in {node_invoices[r].settle_index : r \in DOMAIN node_invoices} :
                    \A r \in DOMAIN node_invoices : node_invoices[r].settle_index <= n
       IN node_invoices' = [node_invoices EXCEPT ![raw].settle_index = top + 1]
    /\ UNCHANGED <<call, cw, stream>>
    /\ UNCHANGED <<dbVars, chain, sent, paid, procVars, histVars>>

\* the worker receives a settled update and looks the invoice up
InvoiceDeliver(p) ==
    /\ ic[p].pc = "idle"
    /\ \E raw \in DOMAIN node_invoices :
         /\ node_invoices[raw].settle_index # 0
         /\ ic' = [ic EXCEPT ![p] =
                IF IsSome(get_by_invoice(raw))
                THEN [IcIdle("load") EXCEPT !.i = 1, !.settled = SettledInvoiceOf(raw),
                                            !.invoice = Unwrap(get_by_invoice(raw))]
                ELSE [IcIdle("idle") EXCEPT !.result = "skipped"]]
    /\ UNCHANGED <<call, cw, stream>>
    /\ UNCHANGED <<dbVars, nodeVars, wst, pay, dl, snd, wl, histVars>>

\* complete, one iteration: is_settled, balance::get and Invoice::settle
InvoiceLoad(p) ==
    /\ ic[p].pc = "load"
    /\ LET s == ic[p]
           c == settle(s.invoice, balance_get(s.invoice.user_id), s.settled)
       IN ic' = [ic EXCEPT ![p] =
              IF is_settled(s.invoice) THEN [IcIdle("idle") EXCEPT !.result = "ok"]
              ELSE IF c.panic THEN [IcIdle("idle") EXCEPT !.result = "panic"]
              ELSE [s EXCEPT !.pc = "write", !.invoice = c.invoice,
                             !.balance = c.balance]]
    /\ UNCHANGED <<call, cw, stream>>
    /\ UNCHANGED <<dbVars, nodeVars, wst, pay, dl, snd, wl, histVars>>

\* complete, one iteration: queries::upsert, balance::update, commit
InvoiceWrite(p) ==
    /\ ic[p].pc = "write"
    /\ LET s == ic[p] IN
       IF update_ok(s.balance)
       THEN /\ invoices' = Invoice_upsert(s.invoice)
            /\ balance' = update(s.balance)
            /\ credits' = Bump(credits, <<s.invoice.raw>>)
            /\ ic' = [ic EXCEPT ![p] = [IcIdle("idle") EXCEPT !.result = "settled"]]
       ELSE /\ ic' = [ic EXCEPT ![p] =
                   IF retry_again(s.i)
                   THEN [IcIdle("load") EXCEPT !.i = s.i + 1, !.settled = s.settled,
                                               !.invoice = s.invoice]
                   ELSE [IcIdle("idle") EXCEPT !.result = "panic"]]
            /\ UNCHANGED <<invoices, balance, credits>>
    /\ UNCHANGED <<call, cw, stream>>
    /\ UNCHANGED <<reservations, withdrawals, payments, deposits, tx_outs, nodeVars, wst,
                   pay, dl, snd, wl, resWrites>>


----------------------------------------------------------------------------
(* ln/node.rs: the wallet queries behind Withdrawal::send *)

\* Node::get_tx_outs_start_end: the outputs of the wallet's transactions between
\* two heights; an end height of -1 adds the unconfirmed ones
get_tx_outs_start_end(start_height, end_height, label) ==
    {k \in DOMAIN chain :
        /\ IsSome(label) => chain[k].label = Unwrap(label)
        /\ IF IsSome(chain[k].block_height)
           THEN /\ Unwrap(chain[k].block_height) >= start_height
                /\ end_height = -1 \/ Unwrap(chain[k].block_height) <= end_height
           ELSE end_height = -1}

\* Node::get_tx, the last lookup: the unconfirmed outputs with the label
get_tx_unconfirmed(address, amount, label) ==
    LET hit == {k \in get_tx_outs_start_end(I32_MAX, -1, Some(label)) :
                   chain[k].address = address /\ chain[k].amount = amount}
    IN IF hit = {} THEN None ELSE Some(TxOutOf(CHOOSE k \in hit : TRUE))

RECURSIVE get_tx_from(_, _, _, _)
\* Node::get_tx, the loop over strides of NUM_BLOCKS_ONE_MONTH blocks from
\* start_height: it ends at the first stride with no labelled output
get_tx_from(start_height, address, amount, label) ==
    LET outs == get_tx_outs_start_end(start_height, start_height + NUM_BLOCKS_ONE_MONTH,
                                      Some(label))
        hit == {k \in outs : chain[k].address = address /\ chain[k].amount = amount}
    IN IF outs = {} THEN get_tx_unconfirmed(address, amount, label)
       ELSE IF hit # {} THEN Some(TxOutOf(CHOOSE k \in hit : TRUE))
       ELSE get_tx_from(start_height + NUM_BLOCKS_ONE_MONTH, address, amount, label)

\* Node::get_tx
get_tx(address, amount, label) == get_tx_from(FIRST_BLOCK, address, amount, label)

\* the number of send_onchain calls the node has seen for a label
sent_count(label) == IF label \in DOMAIN sent THEN sent[label] ELSE 0

\* Node::send_onchain: the output of the transaction that send_coins broadcasts
send_onchain_key(label) == <<<<label[1], label[2], sent_count(label) + 1>>, 0>>

----------------------------------------------------------------------------
(* withdrawal/mod.rs: WithdrawalSender *)

Senders == {"s1", "s2"}

SndIdle(pc) == [pc |-> pc, todo |-> {}, withdrawal |-> NoWithdrawal, result |-> "none"]

\* WithdrawalRow::into_entity for a row read without its tx_outs row
Withdrawal_unsent_entity(id) ==
    [id |-> id, user_id |-> withdrawals[id].user_id,
     reservation_id |-> withdrawals[id].reservation_id,
     address |-> withdrawals[id].address, fee |-> withdrawals[id].fee_sats,
     amount |-> withdrawals[id].amount_sats, tx_out |-> None,
     confirmed |-> withdrawals[id].confirmed]

\* withdrawal::queries::list_unsent
list_unsent ==
    {Withdrawal_unsent_entity(id) :
        id \in {x \in DOMAIN withdrawals : ~IsSome(withdrawals[x].tx)}}

\* the row lock of queries::lock is held by a sender from lock to commit
locked(id) ==
    \E q \in DOMAIN snd : snd[q].pc \in {"send", "write"} /\ snd[q].withdrawal.id = id

\* the unique index withdrawal_tx_id_v_out admits the row of queries::upsert
Withdrawal_unique_ok(w) ==
    IsSome(w.tx_out) =>
        \A id \in DOMAIN withdrawals :
            withdrawals[id].tx = Some(KeyOf(Unwrap(w.tx_out))) => id = w.id

\* WithdrawalSender::run: list_unsent
SenderRun(p) ==
    /\ snd[p].pc = "idle"
    /\ list_unsent # {}
    /\ snd' = [snd EXCEPT ![p] = [SndIdle("lock") EXCEPT !.todo = list_unsent]]
    /\ UNCHANGED <<call, cw, stream>>
    /\ UNCHANGED <<dbVars, nodeVars, wst, pay, dl, ic, wl, histVars>>

\* the next withdrawal of the run: begin and queries::lock
SenderLock(p) ==
    /\ snd[p].pc = "lock"
    /\ \E w \in snd[p].todo :
         /\ ~locked(w.id)
         /\ snd' = [snd EXCEPT ![p] = [@ EXCEPT !.pc = "send", !.withdrawal = w,
                                                !.todo = @ \ {w}]]
    /\ UNCHANGED <<call, cw, stream>>
    /\ UNCHANGED <<dbVars, nodeVars, wst, pay, dl, ic, wl, histVars>>

\* Withdrawal::send: get_tx, and send_onchain when it finds nothing
SenderSend(p) ==
    /\ snd[p].pc = "send"
    /\ LET w == snd[p].withdrawal
           found == get_tx(w.address, w.amount, w.id)
           k == send_onchain_key(w.id)
       IN IF IsSome(found)
          THEN /\ snd' = [snd EXCEPT ![p] = [@ EXCEPT !.pc = "write",
                                                     !.withdrawal.tx_out = found]]
               /\ UNCHANGED <<chain, sent>>
          ELSE /\ sent_count(w.id) < MaxBroadcasts
               /\ sent' = [l \in DOMAIN sent \cup {w.id} |->
                              IF l = w.id THEN sent_count(w.id) + 1 ELSE sent[l]]
               /\ chain' = [x \in DOMAIN chain \cup {k} |->
                               IF x = k
                               THEN [block_height |-> None, address |-> w.address,
                                     amount |-> w.amount, label |-> w.id]
                               ELSE chain[x]]
               /\ snd' = [snd EXCEPT ![p] =
                      [@ EXCEPT !.pc = "write",
                                !.withdrawal.tx_out =
                                    Some([tx |-> [id |-> k[1], block_height |-> None],
                                          address |-> w.address, v_out |-> 0,
                                          amount |-> w.amount])]]
    /\ UNCHANGED <<call, cw, stream>>
    /\ UNCHANGED <<dbVars, paid, node_invoices, wst, pay, dl, ic, wl, histVars>>

\* queries::upsert and commit; a panic is swallowed and the run goes on
SenderWrite(p) ==
    /\ snd[p].pc = "write"
    /\ LET s == snd[p]
           next == IF s.todo = {} THEN "idle" ELSE "lock"
       IN IF Withdrawal_unique_ok(s.withdrawal)
          THEN /\ tx_outs' = TxOut_upsert(Unwrap(s.withdrawal.tx_out))
               /\ withdrawals' = Withdrawal_upsert(s.withdrawal)
               /\ snd' = [snd EXCEPT ![p] =
                      [SndIdle(next) EXCEPT !.todo = s.todo, !.result = "sent"]]
          ELSE /\ snd' = [snd EXCEPT ![p] =
                      [SndIdle(next) EXCEPT !.todo = s.todo, !.result = "panic"]]
               /\ UNCHANGED <<tx_outs, withdrawals>>
    /\ UNCHANGED <<call, cw, stream>>
    /\ UNCHANGED <<balance, reservations, payments, deposits, invoices, nodeVars, wst,
                   pay, dl, ic, wl, histVars>>

\* the process dies after send returned and before the commit; the transaction
\* is rolled back and the restarted worker begins a new run
SenderCrash(p) ==
    /\ snd[p].pc = "write"
    /\ snd' = [snd EXCEPT ![p] = [SndIdle("idle") EXCEPT !.result = "crashed"]]
    /\ UNCHANGED <<call, cw, stream>>
    /\ UNCHANGED <<dbVars, nodeVars, wst, pay, dl, ic, wl, histVars>>

----------------------------------------------------------------------------
(* withdrawal/mod.rs: the Withdrawal listener; withdrawal/entities.rs *)

WListeners == {"l1", "l2"}

WlIdle(pc) ==
    [pc |-> pc, tx_out |-> NoTxOut, withdrawal |-> NoWithdrawal,
     reservation |-> NoReservation, result |-> "none"]

\* withdrawal::queries::get_by_tx_out: the withdrawals row joined with its tx_outs row
get_by_tx_out(key) ==
    LET ids == {id \in DOMAIN withdrawals : withdrawals[id].tx = Some(key)} IN
    IF ids = {} \/ key \notin DOMAIN tx_outs THEN None
    ELSE LET id == CHOOSE x \in ids : TRUE IN
         Some([Withdrawal_unsent_entity(id) EXCEPT
                  !.tx_out = Some([tx |-> [id |-> key[1],
                                           block_height |-> tx_outs[key].block_height],
                                   address |-> withdrawals[id].address,
                                   v_out |-> key[2],
                                   amount |-> withdrawals[id].amount_sats])])

Withdrawal_confirm_without_debit(w, tx_out, r) ==
    [panic |-> FALSE,
     withdrawal |-> [w EXCEPT !.tx_out = Some(tx_out), !.confirmed = TRUE],
     reservation |-> r]

\* Withdrawal::confirm
Withdrawal_confirm(w, tx_out, r) ==
    IF \/ ~IsSome(w.tx_out)
       \/ w.confirmed
       \/ ~is_confirmed(tx_out.tx)
       \/ tx_out.tx.id # Unwrap(w.tx_out).tx.id
       \/ r.status # "Pending"
       \/ w.reservation_id # r.id
    THEN [panic |-> TRUE, withdrawal |-> w, reservation |-> r]
    ELSE [panic |-> FALSE,
          withdrawal |-> [w EXCEPT !.tx_out = Some(tx_out), !.confirmed = TRUE],
          reservation |-> debit(r).reservation]

\* Listener::process of a confirmed output: queries::get_by_tx_out
WListenerProcess(p) ==
    /\ wl[p].pc = "idle"
    /\ \E k \in DOMAIN chain :
         /\ is_confirmed(TxOutOf(k).tx)
         /\ LET found == get_by_tx_out(k) IN
            wl' = [wl EXCEPT ![p] =
                IF ~IsSome(found) THEN [WlIdle("idle") EXCEPT !.result = "no withdrawal"]
                ELSE IF Unwrap(found).confirmed
                THEN [WlIdle("idle") EXCEPT !.result = "already confirmed"]
                ELSE [WlIdle("confirm") EXCEPT !.tx_out = TxOutOf(k),
                                               !.withdrawal = Unwrap(found)]]
    /\ UNCHANGED <<call, cw, stream>>
    /\ UNCHANGED <<dbVars, nodeVars, wst, pay, dl, ic, snd, histVars>>

\* begin, balance::get_reservation and Withdrawal::confirm
WListenerConfirm(p) ==
    /\ wl[p].pc = "confirm"
    /\ LET s == wl[p]
           c == Withdrawal_confirm(s.withdrawal, s.tx_out,
                                   get_reservation(s.withdrawal.reservation_id))
       IN wl' = [wl EXCEPT ![p] =
              IF c.panic THEN [WlIdle("idle") EXCEPT !.result = "panic in confirm"]
              ELSE [s EXCEPT !.pc = "write", !.withdrawal = c.withdrawal,
                             !.reservation = c.reservation]]
    /\ UNCHANGED <<call, cw, stream>>
    /\ UNCHANGED <<dbVars, nodeVars, wst, pay, dl, ic, snd, histVars>>

\* queries::upsert, upsert_reservation, commit; the upsert waits for the row lock
WListenerWrite(p) ==
    /\ wl[p].pc = "write"
    /\ ~locked(wl[p].withdrawal.id)
    /\ LET s == wl[p] IN
       IF Withdrawal_unique_ok(s.withdrawal) /\ upsert_reservation_ok(s.reservation)
       THEN /\ tx_outs' = TxOut_upsert(Unwrap(s.withdrawal.tx_out))
            /\ withdrawals' = Withdrawal_upsert(s.withdrawal)
            /\ reservations' = upsert_reservation(s.reservation)
            /\ resWrites' = BumpWrites(s.reservation.id)
            /\ wl' = [wl EXCEPT ![p] = [WlIdle("idle") EXCEPT !.result = "confirmed"]]
       ELSE /\ wl' = [wl EXCEPT ![p] =
                   [WlIdle("idle") EXCEPT !.result = "panic in upsert"]]
            /\ UNCHANGED <<tx_outs, withdrawals, reservations, resWrites>>
    /\ UNCHANGED <<call, cw, stream>>
    /\ UNCHANGED <<balance, payments, deposits, invoices, nodeVars, wst, pay, dl, ic,
                   snd, credits>>

\* the database fails a statement of the confirmation: its unwrap panics out of
\* Listener::process, and the transaction is dropped
WListenerFails(p) ==
    /\ wl[p].pc \in {"confirm", "write"}
    /\ wl' = [wl EXCEPT ![p] = [WlIdle("idle") EXCEPT !.result = "panic in upsert"]]
    /\ UNCHANGED <<call, cw, stream>>
    /\ UNCHANGED <<dbVars, nodeVars, wst, pay, dl, ic, snd, histVars>>

----------------------------------------------------------------------------
(* invoice/mod.rs: InvoiceListener, the worker on the node's stream of       *)
(* settled invoices; ln/node.rs                                              *)

InvoiceStream(pc, settle_index) ==
    [pc |-> pc, settle_index |-> settle_index, todo |-> {}]

NoStreams == [p \in Completers |-> InvoiceStream("off", 0)]

\* invoice::queries::get_max_settle_index
get_max_settle_index ==
    LET xs == {Unwrap(invoices[id].settlement).settle_index :
                  id \in {x \in DOMAIN invoices : IsSome(invoices[x].settlement)}}
    IN IF xs = {} THEN 0 ELSE CHOOSE n \in xs : \A m \in xs : m <= n

\* Node::stream_settled_invoices: the settled invoices of the node that a
\* subscription at settle_index has still to deliver
stream_settled_invoices(settle_index) ==
    {raw \in DOMAIN node_invoices : node_invoices[raw].settle_index > settle_index}

\* invoice::queries::get_unsettled
get_unsettled ==
    {[id |-> id, user_id |-> invoices[id].user_id, amount |-> invoices[id].amount_msats,
      raw |-> invoices[id].invoice, settlement |-> invoices[id].settlement] :
        id \in {x \in DOMAIN invoices : ~IsSome(invoices[x].settlement)}}

\* start_worker: the unsettled invoices that the reconciliation goes through
Startup == [InvoiceStream("startup", 0) EXCEPT !.todo = get_unsettled]

\* start_worker, one invoice of the reconciliation: Node::get_invoice_status,
\* and complete when the node has the invoice settled
ReconcileNext(p) ==
    /\ stream[p].pc = "startup"
    /\ ic[p].pc = "idle"
    /\ \E invoice \in stream[p].todo :
         /\ stream' = [stream EXCEPT ![p].todo = @ \ {invoice}]
         /\ ic' = [ic EXCEPT ![p] =
                IF node_invoices[invoice.raw].settle_index # 0
                THEN [IcIdle("load") EXCEPT !.i = 1, !.invoice = invoice,
                                            !.settled = SettledInvoiceOf(invoice.raw)]
                ELSE [IcIdle("idle") EXCEPT !.result = "pending"]]
    /\ UNCHANGED <<dbVars, nodeVars, wst, pay, dl, snd, wl, histVars, call, cw>>

\* start_worker after the reconciliation: worker::start of the InvoiceListener
ReconcileEnd(p) ==
    /\ stream[p].pc = "startup"
    /\ ic[p].pc = "idle"
    /\ stream[p].todo = {}
    /\ stream' = [stream EXCEPT ![p] = InvoiceStream("idle", 0)]
    /\ UNCHANGED <<dbVars, nodeVars, procVars, histVars, call, cw>>

\* InvoiceListener::run: get_max_settle_index and the subscription
StreamRun(p) ==
    /\ stream[p].pc = "idle"
    /\ stream' = [stream EXCEPT ![p] = InvoiceStream("open", get_max_settle_index)]
    /\ UNCHANGED <<dbVars, nodeVars, procVars, histVars, call, cw>>

\* InvoiceListener::run: the stream yields its next update, in the order of the
\* settle index, and the worker looks the invoice up
StreamDeliver(p) ==
    /\ stream[p].pc = "open"
    /\ ic[p].pc = "idle"
    /\ \E raw \in stream_settled_invoices(stream[p].settle_index) :
         /\ \A other \in stream_settled_invoices(stream[p].settle_index) :
               node_invoices[raw].settle_index <= node_invoices[other].settle_index
         /\ stream' = [stream EXCEPT ![p].settle_index = node_invoices[raw].settle_index]
         /\ ic' = [ic EXCEPT ![p] =
                IF IsSome(get_by_invoice(raw))
                THEN [IcIdle("load") EXCEPT !.i = 1, !.settled = SettledInvoiceOf(raw),
                                            !.invoice = Unwrap(get_by_invoice(raw))]
                ELSE [IcIdle("idle") EXCEPT !.result = "skipped"]]
    /\ UNCHANGED <<dbVars, nodeVars, wst, pay, dl, snd, wl, histVars, call, cw>>

\* the stream fails between two updates: the unwrap of the update panics
\* through run, and worker::start calls run again
StreamEnd(p) ==
    /\ stream[p].pc = "open"
    /\ ic[p].pc = "idle"
    /\ stream' = [stream EXCEPT ![p] = InvoiceStream("idle", 0)]
    /\ UNCHANGED <<dbVars, nodeVars, procVars, histVars, call, cw>>

\* a database call of the completion fails: its unwrap panics, the transaction
\* is dropped, and swallow_panic lets the loop go on to the next update
InvoicePanic(p) ==
    /\ ic[p].pc \in {"load", "write"}
    /\ ic' = [ic EXCEPT ![p] = [IcIdle("idle") EXCEPT !.result = "panic"]]
    /\ UNCHANGED <<dbVars, nodeVars, wst, pay, dl, snd, wl, histVars, call, cw, stream>>

----------------------------------------------------------------------------
(* chain.rs: the worker that feeds the Withdrawal listener; ln/node.rs *)

NUM_BLOCKS == 10

ChainWorker(pc, chain_tip) == [pc |-> pc, chain_tip |-> chain_tip, batch |-> {}, todo |-> {}]

NoChainWorkers == [p \in WListeners |-> ChainWorker("off", FIRST_BLOCK)]

\* the greatest of a non-empty set of heights
MaxOf(S) == CHOOSE n \in S : \A m \in S : m <= n

\* Node::get_highest_block, of outputs of the wallet
get_highest_block(keys) ==
    LET hs == {Unwrap(chain[k].block_height) :
                  k \in {x \in keys : IsSome(chain[x].block_height)}}
    IN IF hs = {} THEN None ELSE Some(MaxOf(hs))

\* Node::get_tx_outs: the outputs in a range of blocks, with the unconfirmed
\* ones when the range runs over the last block that has one
get_tx_outs(start_height, num_blocks) ==
    LET end_height == start_height + num_blocks - 1
        confirmed_tx_outs == get_tx_outs_start_end(start_height, end_height, None)
        highest == get_highest_block(confirmed_tx_outs)
        highest_block == IF IsSome(highest) THEN Unwrap(highest) ELSE 0
    IN IF highest_block < end_height
       THEN get_tx_outs_start_end(start_height, -1, None)
       ELSE confirmed_tx_outs

get_chain_tip_after_max(start_height) ==
    LET hs == {Unwrap(tx_outs[k].block_height) :
                  k \in {x \in DOMAIN tx_outs : IsSome(tx_outs[x].block_height)}}
    IN IF hs = {} THEN start_height ELSE MaxOf(hs) + 1

\* chain::queries::get_chain_tip
get_chain_tip(start_height) ==
    LET hs == {Unwrap(tx_outs[k].block_height) :
                  k \in {x \in DOMAIN tx_outs : IsSome(tx_outs[x].block_height)}}
    IN IF hs = {} THEN start_height ELSE MaxOf(hs)

\* the outcomes of Listener::process that unwind through Worker::run
ListenerPanics == {"panic in confirm", "panic in upsert"}

\* Worker::run, the head of the loop: node.get_tx_outs from the chain tip
ChainRun(p) ==
    /\ cw[p].pc = "idle"
    /\ LET outs == {TxOutOf(k) : k \in get_tx_outs(cw[p].chain_tip, NUM_BLOCKS)} IN
       cw' = [cw EXCEPT ![p] = [@ EXCEPT !.pc = "process", !.batch = outs, !.todo = outs]]
    /\ UNCHANGED <<dbVars, nodeVars, procVars, histVars, call, stream>>

ChainProcess_confirming_again(p) ==
    /\ cw[p].pc = "process"
    /\ wl[p].pc = "idle"
    /\ wl[p].result \notin ListenerPanics
    /\ \E tx_out \in cw[p].todo :
         /\ cw' = [cw EXCEPT ![p].todo = @ \ {tx_out}]
         /\ LET found == get_by_tx_out(KeyOf(tx_out)) IN
            wl' = [wl EXCEPT ![p] =
                IF ~is_confirmed(tx_out.tx)
                THEN [WlIdle("idle") EXCEPT !.result = "not confirmed"]
                ELSE IF ~IsSome(found)
                THEN [WlIdle("idle") EXCEPT !.result = "no withdrawal"]
                ELSE [WlIdle("confirm") EXCEPT !.tx_out = tx_out,
                                               !.withdrawal = Unwrap(found)]]
    /\ UNCHANGED <<dbVars, nodeVars, wst, pay, dl, ic, snd, histVars, call, stream>>

\* Worker::run hands the next output of the batch to Listener::process, which
\* returns at once for an unconfirmed output and else runs queries::get_by_tx_out
ChainProcess(p) ==
    /\ cw[p].pc = "process"
    /\ wl[p].pc = "idle"
    /\ wl[p].result \notin ListenerPanics
    /\ \E tx_out \in cw[p].todo :
         /\ cw' = [cw EXCEPT ![p].todo = @ \ {tx_out}]
         /\ LET found == get_by_tx_out(KeyOf(tx_out)) IN
            wl' = [wl EXCEPT ![p] =
                IF ~is_confirmed(tx_out.tx)
                THEN [WlIdle("idle") EXCEPT !.result = "not confirmed"]
                ELSE IF ~IsSome(found)
                THEN [WlIdle("idle") EXCEPT !.result = "no withdrawal"]
                ELSE IF Unwrap(found).confirmed
                THEN [WlIdle("idle") EXCEPT !.result = "already confirmed"]
                ELSE [WlIdle("confirm") EXCEPT !.tx_out = tx_out,
                                               !.withdrawal = Unwrap(found)]]
    /\ UNCHANGED <<dbVars, nodeVars, wst, pay, dl, ic, snd, histVars, call, stream>>

new_chain_tip_of_any(batch) ==
    LET hs == {Unwrap(t.tx.block_height) : t \in {x \in batch : is_confirmed(x.tx)}}
    IN IF hs = {} THEN None ELSE Some((CHOOSE n \in hs : \A m \in hs : n <= m) + 1)

\* Worker::run, new_chain_tip: the block after the highest of the batch, if the
\* batch has a confirmed output
new_chain_tip(batch) ==
    LET hs == {Unwrap(t.tx.block_height) : t \in {x \in batch : is_confirmed(x.tx)}}
    IN IF hs = {} THEN None ELSE Some(MaxOf(hs) + 1)

ChainAdvance_past_panic(p) ==
    /\ cw[p].pc = "process"
    /\ wl[p].pc = "idle"
    /\ cw[p].todo = {} \/ wl[p].result \in ListenerPanics
    /\ LET tip == new_chain_tip(cw[p].batch)
       IN cw' = [cw EXCEPT ![p] =
              IF ~IsSome(tip)
              THEN ChainWorker("sleep", @.chain_tip)
              ELSE ChainWorker("idle", Unwrap(tip))]
    /\ wl' = [wl EXCEPT ![p] = WlIdle("idle")]
    /\ UNCHANGED <<dbVars, nodeVars, wst, pay, dl, ic, snd, histVars, call, stream>>

\* Worker::run after the batch: the chain tip moves and the loop goes on, or
\* the run returns when the batch had no confirmed output; a panic of the
\* listener ends the run where it is, and worker::start sleeps after either
ChainAdvance(p) ==
    /\ cw[p].pc = "process"
    /\ wl[p].pc = "idle"
    /\ cw[p].todo = {} \/ wl[p].result \in ListenerPanics
    /\ LET tip == new_chain_tip(cw[p].batch)
       IN cw' = [cw EXCEPT ![p] =
              IF wl[p].result \in ListenerPanics \/ ~IsSome(tip)
              THEN ChainWorker("sleep", @.chain_tip)
              ELSE ChainWorker("idle", Unwrap(tip))]
    /\ wl' = [wl EXCEPT ![p] = WlIdle("idle")]
    /\ UNCHANGED <<dbVars, nodeVars, wst, pay, dl, ic, snd, histVars, call, stream>>

\* worker::start: the sleep of Worker::timeout is over and run is called again
ChainWake(p) ==
    /\ cw[p].pc = "sleep"
    /\ cw' = [cw EXCEPT ![p].pc = "idle"]
    /\ UNCHANGED <<dbVars, nodeVars, procVars, histVars, call, stream>>

\* the service is stopped and started again: open transactions are rolled
\* back, chain::listen reads the chain tip from the tx_outs table, and
\* invoice::start_worker reconciles the unsettled invoices
Restart ==
    /\ snd' = [p \in DOMAIN snd |-> IF snd[p].pc = "off" THEN snd[p] ELSE SndIdle("idle")]
    /\ wl' = [p \in DOMAIN wl |-> IF wl[p].pc = "off" THEN wl[p] ELSE WlIdle("idle")]
    /\ cw' = [p \in DOMAIN cw |->
                 IF cw[p].pc = "off" THEN cw[p]
                 ELSE ChainWorker("idle", get_chain_tip(FIRST_BLOCK))]
    /\ ic' = [p \in DOMAIN ic |-> IF ic[p].pc = "off" THEN ic[p] ELSE IcIdle("idle")]
    /\ stream' = [p \in DOMAIN stream |->
                     IF stream[p].pc = "off" THEN stream[p] ELSE Startup]
    /\ UNCHANGED <<dbVars, nodeVars, wst, pay, dl, histVars, call>>

----------------------------------------------------------------------------
(* The ledger: one process of each flow on the balance of u1, and a          *)
(* withdrawal of u2. main.rs starts one Deposit listener and one invoice     *)
(* worker.                                                                   *)

\* the output of an outside transaction that pays the deposit address a1
DepositKey == <<<<"t1", 0, 0>>, 0>>
NoLabel == <<"", 0>>

InitDb ==
    /\ balance = [u \in Users |-> msats(InitialSats)]
    /\ reservations = <<>>
    /\ withdrawals = <<>>
    /\ payments = <<>>
    /\ deposits = <<>>
    /\ tx_outs = <<>>
    /\ invoices = ("i1" :> [user_id |-> "u1", amount_msats |-> msats(1),
                            invoice |-> "lnbc1", settlement |-> None])

InitNode ==
    /\ chain = (DepositKey :> [block_height |-> None, address |-> "a1", amount |-> 1,
                               label |-> NoLabel])
    /\ sent = <<>>
    /\ paid = [p \in Payers |-> 0]
    /\ node_invoices = ("lnbc1" :> [settle_index |-> 0, amt_paid_msat |-> msats(1)])

InitHist ==
    /\ credits = <<>>
    /\ resWrites = <<>>
    /\ call = NoCall

Init ==
    /\ InitDb
    /\ InitNode
    /\ InitHist
    /\ wst = [p \in WStarters |-> WstIdle(IF p \in LedgerWStarters THEN "idle" ELSE "off")]
    /\ pay = [p \in Payers |-> PayIdle("idle")]
    /\ dl = [p \in DepListeners |-> DlIdle(IF p = "d1" THEN "idle" ELSE "off")]
    /\ ic = [p \in Completers |-> IcIdle("idle")]
    /\ snd = [p \in Senders |-> SndIdle("off")]
    /\ wl = [p \in WListeners |-> WlIdle("off")]
    /\ cw = NoChainWorkers
    /\ stream = NoStreams

\* the node errors drawn in the ledger: the unknown outcome and a refunding one
LedgerErrors == {"Unknown", "NoRouteFound"}

Next ==
    \/ \E p \in LedgerWStarters, a \in 0..MaxAmountSats : WStartCall(p, "ext", a)
    \/ \E p \in LedgerWStarters, fee \in 0..MaxFeeSats : WStartLoad(p, fee)
    \/ \E p \in LedgerWStarters : WStartWrite(p)
    \/ \E p \in Payers : PayCall(p, [raw |-> "lnA", amount |-> Some(msats(1))], None)
    \/ \E p \in Payers, probe \in ProbeResults(LedgerErrors) : PayPrepareLoad(p, probe)
    \/ \E p \in Payers : PayPrepareWrite(p)
    \/ \E p \in Payers, o \in {"Ok"} \cup LedgerErrors : PaySendLoad(p, o)
    \/ \E p \in Payers : PaySendWrite(p)
    \/ \E p \in DepListeners : DepositProcess(p) \/ DepositGet(p)
    \/ \E p \in DepListeners : DepositBalance(p) \/ DepositWrite(p)
    \/ \E p \in Completers : InvoiceDeliver(p) \/ InvoiceLoad(p) \/ InvoiceWrite(p)
    \/ \E k \in DOMAIN chain : Mine(k, FIRST_BLOCK + 1)
    \/ \E raw \in DOMAIN node_invoices : NodeSettle(raw)

Spec == Init /\ [][Next]_vars

----------------------------------------------------------------------------
(* The withdrawal pipeline: a withdrawal of u1 is started, sent by          *)
(* WithdrawalSender runs that may die between broadcast and commit, mined,   *)
(* and confirmed by Withdrawal listeners; two instances of each worker run,  *)
(* next to a payment of u1.                                                  *)

WInit ==
    /\ InitDb
    /\ chain = <<>>
    /\ sent = <<>>
    /\ paid = [p \in Payers |-> 0]
    /\ node_invoices = ("lnbc1" :> [settle_index |-> 0, amt_paid_msat |-> msats(1)])
    /\ InitHist
    /\ wst = [p \in WStarters |-> WstIdle(IF p \in LedgerWStarters THEN "idle" ELSE "off")]
    /\ pay = [p \in Payers |-> PayIdle("idle")]
    /\ dl = [p \in DepListeners |-> DlIdle("off")]
    /\ ic = [p \in Completers |-> IcIdle("off")]
    /\ snd = [p \in Senders |-> SndIdle("idle")]
    /\ wl = [p \in WListeners |-> WlIdle("idle")]
    /\ cw = NoChainWorkers
    /\ stream = NoStreams

WNext ==
    \/ \E p \in LedgerWStarters : WStartCall(p, "ext", MaxAmountSats)
    \/ \E p \in LedgerWStarters, fee \in 0..MaxFeeSats : WStartLoad(p, fee)
    \/ \E p \in LedgerWStarters : WStartWrite(p)
    \/ \E p \in Senders : SenderRun(p) \/ SenderLock(p)
    \/ \E p \in Senders : SenderSend(p) \/ SenderWrite(p) \/ SenderCrash(p)
    \/ \E p \in WListeners : WListenerProcess(p) \/ WListenerConfirm(p)
    \/ \E p \in WListeners : WListenerWrite(p)
    \/ \E k \in DOMAIN chain, h \in MineHeights : Mine(k, h)
    \/ \E p \in Payers : PayCall(p, [raw |-> "lnA", amount |-> Some(msats(1))], None)
    \/ \E p \in Payers : PayPrepareLoad(p, ProbeOk(0)) \/ PayPrepareWrite(p)
    \/ \E p \in Payers, o \in {"Ok", "NoRouteFound"} : PaySendLoad(p, o)
    \/ \E p \in Payers : PaySendWrite(p)

SpecWithdrawals == WInit /\ [][WNext]_vars

----------------------------------------------------------------------------
(* Deposits with two Deposit listener instances: an outside transaction     *)
(* pays the deposit address a1, and u1 withdraws to a1 as well, so that the  *)
(* output of the withdrawal is a deposit too.                                *)

DInit ==
    /\ InitDb
    /\ InitNode
    /\ InitHist
    /\ wst = [p \in WStarters |-> WstIdle(IF p \in LedgerWStarters THEN "idle" ELSE "off")]
    /\ pay = [p \in Payers |-> PayIdle("off")]
    /\ dl = [p \in DepListeners |-> DlIdle("idle")]
    /\ ic = [p \in Completers |-> IcIdle("off")]
    /\ snd = [p \in Senders |-> SndIdle(IF p = "s1" THEN "idle" ELSE "off")]
    /\ wl = [p \in WListeners |-> WlIdle("off")]
    /\ cw = NoChainWorkers
    /\ stream = NoStreams

DNext ==
    \/ \E p \in LedgerWStarters : WStartCall(p, "a1", MaxAmountSats)
    \/ \E p \in LedgerWStarters : WStartLoad(p, 0)
    \/ \E p \in LedgerWStarters : WStartWrite(p)
    \/ \E p \in {"s1"} : SenderRun(p) \/ SenderLock(p) \/ SenderSend(p) \/ SenderWrite(p)
    \/ \E p \in DepListeners : DepositProcess(p) \/ DepositGet(p)
    \/ \E p \in DepListeners : DepositBalance(p) \/ DepositWrite(p)
    \/ \E k \in DOMAIN chain : Mine(k, FIRST_BLOCK + 1)

SpecDeposits == DInit /\ [][DNext]_vars

----------------------------------------------------------------------------
(* The spend flows on the balance of u1 from start to finish: a withdrawal  *)
(* that is started, sent, mined and confirmed, and a payment that is         *)
(* prepared and sent, next to the settlement of an invoice of u1.            *)

SInit ==
    /\ InitDb
    /\ chain = <<>>
    /\ sent = <<>>
    /\ paid = [p \in Payers |-> 0]
    /\ node_invoices = ("lnbc1" :> [settle_index |-> 0, amt_paid_msat |-> msats(1)])
    /\ InitHist
    /\ wst = [p \in WStarters |-> WstIdle(IF p \in LedgerWStarters THEN "idle" ELSE "off")]
    /\ pay = [p \in Payers |-> PayIdle("idle")]
    /\ dl = [p \in DepListeners |-> DlIdle("off")]
    /\ ic = [p \in Completers |-> IcIdle("idle")]
    /\ snd = [p \in Senders |-> SndIdle(IF p = "s1" THEN "idle" ELSE "off")]
    /\ wl = [p \in WListeners |-> WlIdle(IF p = "l1" THEN "idle" ELSE "off")]
    /\ cw = NoChainWorkers
    /\ stream = NoStreams

SNext ==
    \/ \E p \in LedgerWStarters : WStartCall(p, "ext", MaxAmountSats)
    \/ \E p \in LedgerWStarters, fee \in 0..MaxFeeSats : WStartLoad(p, fee)
    \/ \E p \in LedgerWStarters : WStartWrite(p)
    \/ \E p \in {"s1"} : SenderRun(p) \/ SenderLock(p) \/ SenderSend(p) \/ SenderWrite(p)
    \/ \E p \in {"l1"} : WListenerProcess(p) \/ WListenerConfirm(p) \/ WListenerWrite(p)
    \/ \E k \in DOMAIN chain : Mine(k, FIRST_BLOCK + 1)
    \/ \E p \in Payers : PayCall(p, [raw |-> "lnA", amount |-> Some(msats(1))], None)
    \/ \E p \in Payers, probe \in ProbeResults(LedgerErrors) : PayPrepareLoad(p, probe)
    \/ \E p \in Payers : PayPrepareWrite(p)
    \/ \E p \in Payers, o \in {"Ok"} \cup LedgerErrors : PaySendLoad(p, o)
    \/ \E p \in Payers : PaySendWrite(p)
    \/ \E p \in Completers : InvoiceDeliver(p) \/ InvoiceLoad(p) \/ InvoiceWrite(p)
    \/ \E raw \in DOMAIN node_invoices : NodeSettle(raw)

SpecSpend == SInit /\ [][SNext]_vars

----------------------------------------------------------------------------
(* Balance::reserve on its own: every balance and amount up to MaxReserve   *)

MaxReserve == 4

ReserveCalls ==
    {[fn |-> "reserve", b |-> [user_id |-> u, original_amount |-> o, amount |-> a],
      m |-> m, out |-> None] :
        u \in Users, o \in 0..MaxReserve, a \in 0..MaxReserve, m \in 0..MaxReserve}

RInit ==
    /\ InitDb
    /\ InitNode
    /\ credits = <<>>
    /\ resWrites = <<>>
    /\ call \in ReserveCalls
    /\ wst = [p \in WStarters |-> WstIdle("off")]
    /\ pay = [p \in Payers |-> PayIdle("off")]
    /\ dl = [p \in DepListeners |-> DlIdle("off")]
    /\ ic = [p \in Completers |-> IcIdle("off")]
    /\ snd = [p \in Senders |-> SndIdle("off")]
    /\ wl = [p \in WListeners |-> WlIdle("off")]
    /\ cw = NoChainWorkers
    /\ stream = NoStreams

\* the call balance.reserve(m)
ReserveCall ==
    /\ call.fn = "reserve"
    /\ ~IsSome(call.out)
    /\ call' = [call EXCEPT !.out = Some(reserve(call.b, call.m, <<"r", 1>>))]
    /\ UNCHANGED <<dbVars, nodeVars, procVars, histVars, cw, stream>>

RNext == ReserveCall

SpecReserve == RInit /\ [][RNext]_vars

----------------------------------------------------------------------------
(* The withdrawal workers as main.rs starts them: one WithdrawalSender and  *)
(* one chain::Worker with the Withdrawal listener, for a withdrawal of u1.   *)
(* A sender run may die before its commit, and the service may restart.      *)

CInit ==
    /\ InitDb
    /\ chain = <<>>
    /\ sent = <<>>
    /\ paid = [p \in Payers |-> 0]
    /\ node_invoices = ("lnbc1" :> [settle_index |-> 0, amt_paid_msat |-> msats(1)])
    /\ InitHist
    /\ wst = [p \in WStarters |-> WstIdle(IF p \in LedgerWStarters THEN "idle" ELSE "off")]
    /\ pay = [p \in Payers |-> PayIdle("off")]
    /\ dl = [p \in DepListeners |-> DlIdle("off")]
    /\ ic = [p \in Completers |-> IcIdle("off")]
    /\ snd = [p \in Senders |-> SndIdle(IF p = "s1" THEN "idle" ELSE "off")]
    /\ wl = [p \in WListeners |-> WlIdle(IF p = "l1" THEN "idle" ELSE "off")]
    /\ cw = [p \in WListeners |->
                IF p = "l1" THEN ChainWorker("idle", get_chain_tip(FIRST_BLOCK))
                ELSE ChainWorker("off", FIRST_BLOCK)]
    /\ stream = NoStreams

CNext ==
    \/ \E p \in LedgerWStarters : WStartCall(p, "ext", MaxAmountSats)
    \/ \E p \in LedgerWStarters, fee \in 0..MaxFeeSats : WStartLoad(p, fee)
    \/ \E p \in LedgerWStarters : WStartWrite(p)
    \/ SenderRun("s1") \/ SenderLock("s1") \/ SenderSend("s1")
    \/ SenderWrite("s1") \/ SenderCrash("s1")
    \/ ChainRun("l1") \/ ChainProcess("l1") \/ ChainAdvance("l1") \/ ChainWake("l1")
    \/ WListenerConfirm("l1") \/ WListenerWrite("l1")
    \/ \E k \in DOMAIN chain : Mine(k, FIRST_BLOCK + 1)
    \/ Restart

\* worker::start runs the sender and the chain worker for ever, ten seconds
\* after each return or swallowed panic: every step of theirs that can be taken
\* again and again is taken, and a sender does not die in every run
CFair ==
    /\ SF_vars(SenderRun("s1")) /\ SF_vars(SenderLock("s1"))
    /\ SF_vars(SenderSend("s1")) /\ SF_vars(SenderWrite("s1"))
    /\ SF_vars(ChainRun("l1")) /\ SF_vars(ChainProcess("l1"))
    /\ SF_vars(ChainAdvance("l1")) /\ SF_vars(ChainWake("l1"))
    /\ SF_vars(WListenerConfirm("l1")) /\ SF_vars(WListenerWrite("l1"))

SpecChain == CInit /\ [][CNext]_vars /\ CFair

----------------------------------------------------------------------------
(* The invoice worker as main.rs starts it: one InvoiceListener on the        *)
(* stream of the node, two invoices of u1 that payers settle at the node,    *)
(* and a withdrawal start of u1 that writes the same balance.                *)

UserInvoices == {"lnbc1", "lnbc2"}

IInitBase ==
    /\ balance = [u \in Users |-> msats(InitialSats)]
    /\ reservations = <<>>
    /\ withdrawals = <<>>
    /\ payments = <<>>
    /\ deposits = <<>>
    /\ tx_outs = <<>>
    /\ invoices = ("i1" :> [user_id |-> "u1", amount_msats |-> msats(1),
                            invoice |-> "lnbc1", settlement |-> None])
                  @@ ("i2" :> [user_id |-> "u1", amount_msats |-> msats(1),
                               invoice |-> "lnbc2", settlement |-> None])
    /\ chain = <<>>
    /\ sent = <<>>
    /\ paid = [p \in Payers |-> 0]
    /\ node_invoices = [raw \in UserInvoices |->
                           [settle_index |-> 0, amt_paid_msat |-> msats(1)]]
    /\ InitHist
    /\ wst = [p \in WStarters |-> WstIdle(IF p \in LedgerWStarters THEN "idle" ELSE "off")]
    /\ pay = [p \in Payers |-> PayIdle("off")]
    /\ dl = [p \in DepListeners |-> DlIdle("off")]
    /\ ic = [p \in Completers |-> IcIdle("idle")]
    /\ snd = [p \in Senders |-> SndIdle("off")]
    /\ wl = [p \in WListeners |-> WlIdle("off")]
    /\ cw = NoChainWorkers

IInit == IInitBase /\ stream = [p \in Completers |-> InvoiceStream("idle", 0)]

INext ==
    \/ \E p \in LedgerWStarters : WStartCall(p, "ext", MaxAmountSats)
    \/ \E p \in LedgerWStarters, fee \in 0..MaxFeeSats : WStartLoad(p, fee)
    \/ \E p \in LedgerWStarters : WStartWrite(p)
    \/ \E raw \in UserInvoices : NodeSettle(raw)
    \/ StreamRun("c1") \/ StreamDeliver("c1") \/ StreamEnd("c1")
    \/ InvoiceLoad("c1") \/ InvoiceWrite("c1") \/ InvoicePanic("c1")

\* worker::start runs the worker for ever, five seconds after each return or
\* swallowed panic, and the node keeps yielding the updates of a subscription:
\* every step of the worker that can be taken again and again is taken; the
\* stream fails again and again, and not every completion meets a database
\* failure
IFair ==
    /\ SF_vars(StreamRun("c1")) /\ SF_vars(StreamDeliver("c1"))
    /\ SF_vars(StreamEnd("c1"))
    /\ SF_vars(InvoiceLoad("c1")) /\ SF_vars(InvoiceWrite("c1"))

SpecStream == IInit /\ [][INext]_vars /\ IFair

----------------------------------------------------------------------------
(* The invoice worker from the start of the service: start_worker reconciles *)
(* the unsettled invoices with the node and then starts the InvoiceListener; *)
(* payers settle the two invoices of u1 at any time, and the service may be  *)
(* stopped and started again.                                                *)

UInit == IInitBase /\ stream = [p \in Completers |-> Startup]

UNext ==
    \/ \E p \in LedgerWStarters : WStartCall(p, "ext", MaxAmountSats)
    \/ \E p \in LedgerWStarters, fee \in 0..MaxFeeSats : WStartLoad(p, fee)
    \/ \E p \in LedgerWStarters : WStartWrite(p)
    \/ \E raw \in UserInvoices : NodeSettle(raw)
    \/ ReconcileNext("c1") \/ ReconcileEnd("c1")
    \/ StreamRun("c1") \/ StreamDeliver("c1") \/ StreamEnd("c1")
    \/ InvoiceLoad("c1") \/ InvoiceWrite("c1")
    \/ Restart

SpecStartup == UInit /\ [][UNext]_vars

----------------------------------------------------------------------------
(* Properties of the ledger *)

\* what the reservations of a user in the given statuses hold
Held(u, statuses) ==
    SumOver([id \in DOMAIN reservations |-> reservations[id].amount],
            {id \in DOMAIN reservations :
                reservations[id].user_id = u /\ reservations[id].status \in statuses})

\* balance_msats + SUM(Pending) + SUM(Debited) of a user
Total(u) == balance[u] + Held(u, {"Pending", "Debited"})

\* C1: the persisted balance_msats of every user is >= 0 in every committed
\* state, under every interleaving of withdrawal starts, payment blocks, deposit
\* confirmations and invoice settlements.
C1_BalanceNonNegative == \A u \in Users : balance[u] >= 0

\* C1 witness: a withdrawal took the whole balance of u1, and the payment that
\* came after it was refused for insufficient balance.
C1_Witness ==
    /\ balance["u1"] = 0
    /\ wst["w1"].result = "ok"
    /\ pay["p1"].result = "InsufficientBalance"

\* the deposits that this step confirms, and the invoices that it settles
NewlyConfirmed(u) ==
    {id \in DOMAIN deposits' :
        /\ deposits'[id].user_id = u
        /\ deposits'[id].confirmed
        /\ ~(id \in DOMAIN deposits /\ deposits[id].confirmed)}

NewlySettled(u) ==
    {id \in DOMAIN invoices' :
        /\ invoices'[id].user_id = u
        /\ IsSome(invoices'[id].settlement)
        /\ ~(id \in DOMAIN invoices /\ IsSome(invoices[id].settlement))}

C2_Step ==
    \A u \in Users :
        /\ (wst' # wst \/ pay' # pay \/ snd' # snd \/ wl' # wl) => Total(u)' = Total(u)
        /\ Total(u)' # Total(u) => NewlyConfirmed(u) # {} \/ NewlySettled(u) # {}

\* C2: balance_msats + SUM(Pending amounts) + SUM(Debited amounts) of every user
\* is the same before and after every committed step of a spend flow (reserve at
\* withdrawal start and payment prepare, debit at withdrawal confirm and payment
\* success, refund at payment failure); only a step that confirms a deposit or
\* settles an invoice changes it.
C2_Conservation == [][C2_Step]_vars

\* C2 witness: the withdrawal of u1 is confirmed and its reservation debited, the
\* payment of u1 failed and its reservation was refunded, and the invoice of u1
\* was settled.
C2_Witness ==
    /\ \E id \in DOMAIN withdrawals : withdrawals[id].confirmed
    /\ \E id \in DOMAIN reservations : reservations[id].status = "Debited"
    /\ \E id \in DOMAIN reservations : reservations[id].status = "Refunded"
    /\ \E id \in DOMAIN invoices : IsSome(invoices[id].settlement)

\* the balances that the open transactions are about to write
Writers ==
    {wst[p].balance : p \in {q \in DOMAIN wst : wst[q].pc = "write"}}
    \cup {pay[p].balance :
            p \in {q \in DOMAIN pay : pay[q].pc \in {"prepare_write", "send_write"}}}
    \cup {dl[p].balance : p \in {q \in DOMAIN dl : dl[q].pc = "write"}}
    \cup {ic[p].balance : p \in {q \in DOMAIN ic : ic[q].pc = "write"}}

\* the transaction that holds balance b cannot commit it: the row has moved on
Stale(b) == changed(b) /\ balance[b.user_id] # b.original_amount

\* a process that left its write step with a stale balance wrote nothing,
\* and retries or ends with the conflict
ConflictOutcome(old, new, again) ==
    /\ dbVars' = dbVars
    /\ \/ new.pc = again /\ new.i = old.i + 1
       \/ new.pc \in {"done", "idle"} /\ new.result \in {"ConflictError", "panic"}

C3_Step ==
    /\ \A u \in Users :
          balance'[u] # balance[u] =>
              \E b \in Writers : /\ b.user_id = u
                                /\ b.original_amount = balance[u]
                                /\ b.amount = balance'[u]
    /\ \A p \in DOMAIN wst :
          wst[p].pc = "write" /\ Stale(wst[p].balance) /\ wst'[p] # wst[p] =>
              ConflictOutcome(wst[p], wst'[p], "load")
    /\ \A p \in DOMAIN pay :
          /\ pay[p].pc = "prepare_write" /\ Stale(pay[p].balance) /\ pay'[p] # pay[p] =>
                ConflictOutcome(pay[p], pay'[p], "prepare")
          /\ pay[p].pc = "send_write" /\ Stale(pay[p].balance) /\ pay'[p] # pay[p] =>
                ConflictOutcome(pay[p], pay'[p], "send")
    /\ \A p \in DOMAIN dl :
          dl[p].pc = "write" /\ Stale(dl[p].balance) /\ dl'[p] # dl[p] =>
              ConflictOutcome(dl[p], dl'[p], "get")
    /\ \A p \in DOMAIN ic :
          ic[p].pc = "write" /\ Stale(ic[p].balance) /\ ic'[p] # ic[p] =>
              ConflictOutcome(ic[p], ic'[p], "load")

\* C3: a changed balance is committed only while the persisted balance_msats
\* still equals the value the flow loaded (original_amount); a flow whose loaded
\* value is stale gets the conflict, and nothing of its transaction (balance,
\* reservation, withdrawal, payment, deposit, invoice row) becomes visible. So no
\* two flows that loaded the same balance both commit against it.
C3_CompareAndSet == [][C3_Step]_vars

\* C3 witness: the withdrawal start lost the compare-and-set once, ran its
\* block again and committed in the second iteration.
C3_Witness == wst["w1"].pc = "done" /\ wst["w1"].result = "ok" /\ wst["w1"].i = 2

\* C5: Balance::reserve(m) fails exactly when m > amount, then leaves the
\* balance as it was and produces no reservation; otherwise it takes exactly m
\* off amount and returns a Pending reservation of amount m for the same user.
C5_Reserve ==
    call.fn = "reserve" /\ IsSome(call.out) =>
        LET o == Unwrap(call.out) IN
        /\ ~o.ok <=> call.m > call.b.amount
        /\ ~o.ok => o.balance = call.b /\ o.reservation.status = "None"
        /\ o.ok => /\ o.balance = [call.b EXCEPT !.amount = call.b.amount - call.m]
                   /\ o.reservation.status = "Pending"
                   /\ o.reservation.amount = call.m
                   /\ o.reservation.user_id = call.b.user_id

\* C5 witness: a reservation of the whole balance succeeded and left nothing.
C5_Witness ==
    /\ call.fn = "reserve" /\ IsSome(call.out)
    /\ call.m = call.b.amount /\ call.m > 0
    /\ Unwrap(call.out).ok /\ Unwrap(call.out).balance.amount = 0

\* C4: a reservation persisted as Debited or Refunded never changes again:
\* debit() and refund() on it abort without effect, upsert_reservation over its
\* row writes nothing, and no step changes the row, also when two processes race
\* to finish the same Pending reservation.
C4_State ==
    \A id \in DOMAIN reservations :
        reservations[id].status \in {"Debited", "Refunded"} =>
            LET r == get_reservation(id)
                b == balance_get(r.user_id)
            IN /\ debit(r).panic /\ debit(r).reservation = r
               /\ refund(r, b).panic /\ refund(r, b).reservation = r
               /\ refund(r, b).balance = b
               /\ \A st \in {"Pending", "Debited", "Refunded"} :
                     ~upsert_reservation_ok([r EXCEPT !.status = st])

C4_Step ==
    \A id \in DOMAIN reservations :
        reservations[id].status \in {"Debited", "Refunded"} =>
            /\ reservations'[id] = reservations[id]
            /\ Count(resWrites', id) = Count(resWrites, id)

C4_TerminalIsFinal == []C4_State /\ [][C4_Step]_vars

\* C4 witness: two Withdrawal listeners loaded the same Pending reservation; one
\* committed the debit, and the upsert of the other found the row no longer
\* Pending.
C4_Witness ==
    /\ \E p \in WListeners : wl[p].result = "panic in upsert"
    /\ \E p \in WListeners : wl[p].result = "confirmed"
    /\ \E id \in DOMAIN reservations :
          reservations[id].status = "Debited" /\ Count(resWrites, id) = 2

\* what the confirmed deposits and the settled invoices of a user have credited
DepositCredits(u) ==
    SumOver([id \in DOMAIN deposits |-> msats(tx_outs[deposits[id].tx].amount_sats)],
            {id \in DOMAIN deposits : deposits[id].user_id = u /\ deposits[id].confirmed})

InvoiceCredits(u) ==
    SumOver([id \in DOMAIN invoices |->
                IF IsSome(invoices[id].settlement)
                THEN Unwrap(invoices[id].settlement).amount ELSE 0],
            {id \in DOMAIN invoices : invoices[id].user_id = u})

C6_State ==
    /\ \A id \in DOMAIN deposits :
          Count(credits, deposits[id].tx) = IF deposits[id].confirmed THEN 1 ELSE 0
    /\ \A u \in Users :
          Total(u) = msats(InitialSats) + DepositCredits(u) + InvoiceCredits(u)

\* a Deposit listener steps while the deposit of its output is confirmed
C6_Step ==
    \A p \in DOMAIN dl :
        /\ dl'[p] # dl[p]
        /\ \E id \in DOMAIN deposits :
              deposits[id].tx = KeyOf(dl[p].tx_out) /\ deposits[id].confirmed
        => /\ deposits' = deposits
           /\ balance' = balance
           /\ tx_outs' = tx_outs

\* C6: every deposit credits its user's balance by tx_out.amount * 1000 msat
\* exactly once: the first processing of the confirmed output confirms and
\* credits, and every later processing of it by the Deposit listener changes
\* neither the deposit nor the balance.
C6_CreditedOnce == []C6_State /\ [][C6_Step]_vars

----------------------------------------------------------------------------
(* Properties of the deposit and withdrawal workers *)

\* C7: when two Deposit listener instances process the same confirmed output,
\* both having loaded the deposit as unconfirmed, exactly one of them commits
\* the confirmation and the credit, in every interleaving: no deposit is
\* credited more than once.
C7_OneWinner == \A k \in DOMAIN credits : credits[k] <= 1

\* the deposits rows and the withdrawals rows that reference an output
DepositsOf(key) == {id \in DOMAIN deposits : deposits[id].tx = key}
WithdrawalsOf(key) == {id \in DOMAIN withdrawals : withdrawals[id].tx = Some(key)}

C8_State ==
    \A key \in DOMAIN tx_outs :
        Cardinality(DepositsOf(key)) <= 1 /\ Cardinality(WithdrawalsOf(key)) <= 1

\* a listener that inserts a deposit for an output that has one by now writes
\* nothing and runs its block again, where queries::get finds the deposit
C8_Step ==
    \A p \in DOMAIN dl :
        /\ dl[p].pc = "write" /\ dl[p].is_new
        /\ DepositsOf(KeyOf(dl[p].tx_out)) # {}
        /\ dl'[p] # dl[p]
        => /\ dbVars' = dbVars
           /\ dl'[p].pc = "get" /\ dl'[p].i = dl[p].i + 1
           /\ dl'[p].tx_out = dl[p].tx_out
           /\ IsSome(Deposit_get(KeyOf(dl[p].tx_out)))

\* C8: in every committed state an output (tx_id, v_out) is referenced by at
\* most one Deposit row and at most one Withdrawal row; a second, concurrent
\* insert of a Deposit for the output fails with the conflict, and its retry
\* finds the deposit that is there instead of creating another.
C8_UniqueTxOut == []C8_State /\ [][C8_Step]_vars

\* C8 witness: both listeners went to insert a deposit for the same output; the
\* second lost to the unique index and found the row of the first in its retry;
\* and the output of the withdrawal has one Withdrawal row and one Deposit row.
C8_Witness ==
    /\ \E p \in DOMAIN dl :
          /\ dl[p].i = 2 /\ dl[p].pc \in {"balance", "write"} /\ ~dl[p].is_new
          /\ KeyOf(dl[p].tx_out) = DepositKey
          /\ DepositsOf(DepositKey) = {dl[p].deposit.id}
    /\ \E key \in DOMAIN tx_outs :
          Cardinality(DepositsOf(key)) = 1 /\ Cardinality(WithdrawalsOf(key)) = 1

C9_State ==
    \A id \in DOMAIN withdrawals :
        withdrawals[id].confirmed =>
            /\ IsSome(withdrawals[id].tx)
            /\ reservations[withdrawals[id].reservation_id].status = "Debited"

\* the step that sets confirmed is the step that takes the reservation from
\* Pending to Debited
C9_Step ==
    \A id \in DOMAIN withdrawals :
        LET rid == withdrawals[id].reservation_id IN
        /\ withdrawals'[id].confirmed /\ ~withdrawals[id].confirmed
           => reservations[rid].status = "Pending" /\ reservations'[rid].status = "Debited"
        /\ reservations[rid].status = "Pending" /\ reservations'[rid].status = "Debited"
           => withdrawals'[id].confirmed /\ ~withdrawals[id].confirmed

\* C9: in every committed state a Withdrawal with confirmed set has a tx_out
\* recorded and its Reservation is Debited; the confirmation and the debit are
\* committed in the same transaction.
C9_ConfirmedIsDebited == []C9_State /\ [][C9_Step]_vars

\* C9 witness: a Withdrawal listener has confirmed the withdrawal of u1.
C9_Witness ==
    /\ \E id \in DOMAIN withdrawals : withdrawals[id].confirmed
    /\ \E p \in WListeners : wl[p].result = "confirmed"

\* C10: node.send_onchain is called at most once per Withdrawal over the whole
\* history, also when a sender dies between the broadcast and the commit and
\* when several sender runs pick up the same unsent withdrawal.
C10_SentOnce == \A label \in DOMAIN sent : sent[label] <= 1

----------------------------------------------------------------------------
(* Properties of the withdrawal workers under fair scheduling *)

WithdrawalIds == {<<p, i>> : p \in LedgerWStarters, i \in 1..MAX_RETRIES}

\* the transaction that was broadcast for the withdrawal is in a block
Mined(id) ==
    \E k \in DOMAIN chain : chain[k].label = id /\ IsSome(chain[k].block_height)

\* the withdrawal is persisted as confirmed and its reservation as Debited
ConfirmedDebited(id) ==
    /\ id \in DOMAIN withdrawals
    /\ withdrawals[id].confirmed
    /\ reservations[withdrawals[id].reservation_id].status = "Debited"

\* C11: a Withdrawal whose transaction was broadcast and then mined is
\* eventually marked confirmed with its Reservation Debited, under fair
\* scheduling of the sender and the chain listener, in every order in which the
\* sender records the tx_out and the listener sees the mined output.
C11_EventuallyConfirmed == \A id \in WithdrawalIds : Mined(id) ~> ConfirmedDebited(id)

----------------------------------------------------------------------------
(* Properties of the invoice worker *)

\* the invoices row of the update that a completer holds is settled
RowSettled(raw) ==
    IsSome(get_by_invoice(raw)) /\ is_settled(Unwrap(get_by_invoice(raw)))

C12_State ==
    \A id \in DOMAIN invoices :
        Count(credits, <<invoices[id].invoice>>)
            = IF IsSome(invoices[id].settlement) THEN 1 ELSE 0

\* every step of a completion whose invoice is settled in the table writes
\* nothing, and the completion that finds it settled returns Ok
C12_Step ==
    \A p \in DOMAIN ic :
        ic'[p] # ic[p] /\ ic[p].pc # "idle" /\ RowSettled(ic[p].settled.raw)
        => /\ invoices' = invoices /\ balance' = balance /\ credits' = credits
           /\ ic'[p].pc = "idle" /\ ic'[p].result = "ok"

\* C12: completing an invoice that is already settled is a no-op: the same
\* settled update, delivered any number of times after the first successful
\* completion, changes neither the invoices row nor the balance, so that each
\* invoice credits the balance at most once.
C12_SettledIsNoOp == []C12_State /\ [][C12_Step]_vars

\* C12 witness: the settled update of the invoice of u1 was delivered again
\* after its completion was committed, and that completion returned Ok.
C12_Witness ==
    /\ RowSettled("lnbc1")
    /\ Count(credits, <<"lnbc1">>) = 1
    /\ \E p \in DOMAIN ic : ic[p].pc = "idle" /\ ic[p].result = "ok"

\* complete returns without a panic
C13_Step ==
    \A p \in DOMAIN ic :
        /\ ic[p].pc \in {"load", "write"}
        /\ ic'[p].pc = "idle"
        /\ ic'[p].result \in {"ok", "settled"}
        => \A raw \in {ic[p].settled.raw} :
              RowSettled(raw)' /\ Count(credits', <<raw>>) = 1

\* C13: when complete() is called for an unsettled invoice and returns without
\* panicking, the invoice is persisted as settled and the balance of the user
\* has been credited by the settled amount, also when iterations of the retry
\* loop lost the compare-and-set on the balance.
C13_CompleteSettles == [][C13_Step]_vars

\* C14: every settlement of a user invoice that the node emits is eventually
\* applied (the invoice settled and credited) by the invoice stream worker
\* without a restart of the process: after a failure of the stream, a swallowed
\* panic or a failed completion the worker subscribes again from
\* MAX(settle_index), and every settlement not yet applied is delivered again.
C14_EventuallyApplied ==
    \A raw \in UserInvoices :
        (raw \in DOMAIN node_invoices /\ node_invoices[raw].settle_index # 0)
            ~> (RowSettled(raw) /\ Count(credits, <<raw>>) = 1)

\* the settle indexes of the invoices that are settled in the ledger
SettleIndexes ==
    {Unwrap(invoices[id].settlement).settle_index :
        id \in {x \in DOMAIN invoices : IsSome(invoices[x].settlement)}}

C15_Step ==
    \A id \in DOMAIN invoices :
        ~IsSome(invoices[id].settlement) /\ IsSome(invoices'[id].settlement)
        => \A n \in SettleIndexes : Unwrap(invoices'[id].settlement).settle_index > n

\* C15: whenever an invoice becomes settled in the ledger, its settle_index is
\* greater than the settle_index of every invoice that was settled in the
\* ledger before it, whether the settlement came from the reconciliation at
\* startup or from the live stream.
C15_SettleIndexGrows == [][C15_Step]_vars

----------------------------------------------------------------------------
(* Properties of payment::send *)

SUCCEEDED == status_to_i32("Succeeded")
FAILED == status_to_i32("Failed")

C16_State ==
    \A id \in DOMAIN payments :
        payments[id].status = SUCCEEDED =>
            /\ IsSome(payments[id].reservation_id) /\ IsSome(payments[id].fee_msats)
            /\ LET r == reservations[Unwrap(payments[id].reservation_id)] IN
               /\ r.status = "Debited"
               /\ r.amount = payments[id].amount_msats + Unwrap(payments[id].fee_msats)

\* the block that follows an Ok of node.pay_invoice commits the payment as
\* Succeeded and the reservation as Debited and leaves the balance alone; of
\* all steps of a payment only the commit of the reservation changes the
\* balance, and it takes exactly amount + fee
C16_Step ==
    \A p \in DOMAIN pay :
        /\ pay[p].pc = "send_write" /\ pay[p].result = "ok" /\ pay'[p] # pay[p]
           => /\ pay'[p].pc = "done" /\ pay'[p].result = "ok"
              /\ payments'[p].status = SUCCEEDED
              /\ reservations'[pay[p].reservation.id].status = "Debited"
              /\ balance' = balance
        /\ pay'[p] # pay[p]
           => balance'[UserOf(p)] = balance[UserOf(p)]
                  - (IF pay[p].pc = "prepare_write" /\ pay'[p].pc = "send"
                     THEN pay[p].payment.amount + Unwrap(pay[p].payment.fee)
                     ELSE IF pay[p].pc = "send_write" /\ pay'[p].pc = "done"
                             /\ pay'[p].result \notin {"ok", "Unknown", "panic",
                                                       "ConflictError"}
                     THEN 0 - pay[p].reservation.amount
                     ELSE 0)

\* C16: when node.pay_invoice returns Ok, payment::send ends with the payment
\* Succeeded, its reservation of amount + probed fee Debited, and the balance
\* lower than before the payment by exactly amount + fee; in every committed
\* state the reservation of a Succeeded payment is Debited.
C16_SucceededIsDebited == []C16_State /\ [][C16_Step]_vars

\* C16 witness: the payment of 1000 msat with a probed fee of 1000 msat
\* succeeded, and its reservation of 2000 msat is Debited.
C16_Witness ==
    /\ pay["p1"].pc = "done" /\ pay["p1"].result = "ok"
    /\ payments["p1"].status = SUCCEEDED
    /\ \E id \in DOMAIN reservations :
          /\ payments["p1"].reservation_id = Some(id)
          /\ reservations[id].status = "Debited"
          /\ reservations[id].amount = msats(1) + msats(MaxFeeSats)

\* the payments that are persisted as Failed
FailedPayments == {id \in DOMAIN payments : payments[id].status = FAILED}

\* the reservation of a Failed payment is Refunded, or Pending when the
\* reason is UNKNOWN
FailedReservationOk(id) ==
    LET r == reservations[Unwrap(payments[id].reservation_id)] IN
    IF payments[id].failure_reason = Some("UNKNOWN")
    THEN r.status = "Pending"
    ELSE r.status = "Refunded"

\* C17 as stated: in every committed state every payment with status Failed
\* has a reservation, and that reservation is Refunded when the failure reason
\* is not UNKNOWN and Pending when the failure reason is UNKNOWN.
C17_FailedHasReservation ==
    \A id \in FailedPayments :
        IsSome(payments[id].reservation_id) /\ FailedReservationOk(id)

\* C17 amended: a payment that failed in the probe was never given a
\* reservation and is persisted as Failed without one; every Failed payment
\* that has a reservation has it Refunded when the failure reason is not
\* UNKNOWN and Pending when it is UNKNOWN.
C17_FailedReservation ==
    \A id \in FailedPayments :
        IF IsSome(payments[id].reservation_id)
        THEN FailedReservationOk(id)
        ELSE ~IsSome(payments[id].fee_msats)

\* C17 witness: the payment of u1 was refused by the node after the probe and
\* is Failed with its reservation Refunded.
C17_Witness ==
    /\ "p1" \in FailedPayments
    /\ payments["p1"].failure_reason = Some("NO_ROUTE_FOUND")
    /\ IsSome(payments["p1"].reservation_id)
    /\ reservations[Unwrap(payments["p1"].reservation_id)].status = "Refunded"

\* payment::send returns after node.pay_invoice answered with an error other
\* than Unknown: Payment::send has refunded the reservation and failed the
\* payment in memory
C18_Step ==
    \A p \in DOMAIN pay :
        /\ pay[p].pc \in {"send", "send_write"}
        /\ pay[p].payment.status = "Failed"
        /\ pay'[p].pc = "done"
        => LET rid == Unwrap(pay[p].payment.reservation_id) IN
           /\ reservations'[rid].status = "Refunded"
           /\ balance'[UserOf(p)] = balance[UserOf(p)] + reservations[rid].amount
           /\ payments'[p].status = FAILED
           /\ payments'[p].failure_reason = Some(pay[p].payment.reason)

\* C18: if node.pay_invoice returns an error other than Unknown after a
\* successful probe, then when payment::send returns the committed state has
\* the reservation Refunded, the balance restored by amount + fee and the
\* payment Failed with the canonical reason of the error, in every interleaving
\* with other flows that write the balance of the user, also when the balance
\* write of the refund meets the conflict.
C18_FailureRefunds == [][C18_Step]_vars

\* node.pay_invoice has returned Unknown to payment p in the second retry block
UnknownReturned(p) == pay[p].pc = "send_write" /\ pay[p].result = "Unknown"

\* every reservation of payment p is Pending
StillReserved(p) ==
    \A id \in DOMAIN reservations : id[1] = p => reservations[id].status = "Pending"

\* the block that saw Unknown leaves the balance row as it found it
C19_Step ==
    \A p \in Payers :
        UnknownReturned(p) /\ pay'[p].pc # "send_write"
        => balance'[UserOf(p)] = balance[UserOf(p)]

\* C19: when node.pay_invoice returns Unknown the reservation is never
\* refunded: after payment::send returns the reservation is still Pending and
\* the balance still reduced by amount + fee, and no later automatic step of
\* the system refunds or debits it.
C19_UnknownNeverRefunded ==
    /\ \A p \in Payers : [](UnknownReturned(p) => []StillReserved(p))
    /\ [][C19_Step]_vars

C19_Witness ==
    /\ pay["p1"].pc = "done"
    /\ pay["p1"].result = "Unknown"
    /\ <<"p1", 1>> \in DOMAIN reservations
    /\ reservations[<<"p1", 1>>].status = "Pending"
    /\ balance[UserOf("p1")] + reservations[<<"p1", 1>>].amount <= msats(InitialSats)

\* payment::send returns Unknown to the caller
C20_Step ==
    \A p \in Payers :
        UnknownReturned(p) /\ pay'[p].pc = "done"
        => /\ payments'[p].status = FAILED
           /\ payments'[p].failure_reason = Some("UNKNOWN")
           /\ StillReserved(p)'
           /\ balance'[UserOf(p)] = balance[UserOf(p)]

\* C20: when node.pay_invoice returns Unknown on send, the payment is recorded
\* as Failed with reason UNKNOWN, while its reservation stays Pending and the
\* balance stays decremented.
C20_UnknownRecordedFailed == [][C20_Step]_vars

----------------------------------------------------------------------------
(* Properties of the retry blocks and of the validations *)

\* the first retry block of payment::send ends: with the payment Ready and its
\* reservation committed, or with an error value
C21_Step ==
    \A p \in Payers :
        pay[p].pc \in {"prepare", "prepare_write"} /\ pay'[p].pc \notin {"prepare", "prepare_write"}
        => \/ /\ pay'[p].pc = "send"
              /\ pay'[p].payment.status = "Ready"
              /\ \A id \in {Unwrap(pay'[p].payment.reservation_id)} :
                    /\ id \in DOMAIN reservations'
                    /\ reservations'[id].status = "Pending"
           \/ /\ pay'[p].pc = "done"
              /\ pay'[p].result # "panic"

\* C21: if the balance write of the prepare block of payment::send meets
\* ConflictError, retry_loop runs the block again on freshly loaded state, and
\* payment::send then reaches Ready with its reservation committed or returns
\* an error value (a non-conflict error, or ConflictError after the 10th
\* attempt); a balance conflict never makes the flow panic.
C21_PrepareConflictRetries == [][C21_Step]_vars

----------------------------------------------------------------------------
(* concurrency::retry_loop on its own: the callback returns Ok, a conflict  *)
(* error, an error that wraps one, or another error, in every order.        *)

\* no flow and no worker runs
AllOff ==
    /\ InitDb
    /\ InitNode
    /\ credits = <<>>
    /\ resWrites = <<>>
    /\ wst = [p \in WStarters |-> WstIdle("off")]
    /\ pay = [p \in Payers |-> PayIdle("off")]
    /\ dl = [p \in DepListeners |-> DlIdle("off")]
    /\ ic = [p \in Completers |-> IcIdle("off")]
    /\ snd = [p \in Senders |-> SndIdle("off")]
    /\ wl = [p \in WListeners |-> WlIdle("off")]
    /\ cw = NoChainWorkers
    /\ stream = NoStreams

\* what a callback returns: Ok, or an error given by its source chain
CallbackOk == [ok |-> TRUE, chain |-> <<>>]
CallbackErrors ==
    {[ok |-> FALSE, chain |-> c] :
        c \in {<<"ConflictError">>, <<"Error", "ConflictError">>, <<"Error">>,
               <<"Error", "sqlx::Error">>}}
CallbackResults == {CallbackOk} \cup CallbackErrors

\* concurrency::is_conflict, down the source chain of the error
RECURSIVE is_conflict(_)
is_conflict(e) ==
    IF e = <<>> THEN FALSE
    ELSE Head(e) = "ConflictError" \/ is_conflict(Tail(e))

\* retry_loop: call number Len(calls) + 1 of the callback returns `ret`
RetryLoopCall(ret) ==
    /\ call.fn = "retry_loop"
    /\ ~IsSome(call.out)
    /\ LET i == Len(call.calls) + 1 IN
       call' = [call EXCEPT
           !.calls = Append(@, ret),
           !.slept = IF ~ret.ok /\ is_conflict(ret.chain) /\ retry_again(i)
                     THEN @ + i ELSE @,
           !.out = IF ~ret.ok /\ is_conflict(ret.chain) /\ retry_again(i)
                   THEN None ELSE Some(ret)]
    /\ UNCHANGED <<dbVars, nodeVars, procVars, histVars, cw, stream>>

YInit ==
    /\ AllOff
    /\ call = [fn |-> "retry_loop", calls |-> <<>>, slept |-> 0, out |-> None]

YNext == \E ret \in CallbackResults : RetryLoopCall(ret)

\* retry_loop awaits the callback and a finite sleep, nothing else
YFair == WF_vars(YNext)

SpecRetry == YInit /\ [][YNext]_vars /\ YFair

\* the calls made so far but the last one
EarlierCalls == IF call.calls = <<>> THEN {} ELSE 1..(Len(call.calls) - 1)

\* the callback is called again only after a conflict error, at most
\* MAX_RETRIES times, and retry_loop returns what the last call returned
C22_State ==
    call.fn = "retry_loop" =>
        /\ Len(call.calls) <= MAX_RETRIES
        /\ \A k \in EarlierCalls : ~call.calls[k].ok /\ is_conflict(call.calls[k].chain)
        /\ IsSome(call.out) =>
              LET last == call.calls[Len(call.calls)] IN
              /\ Unwrap(call.out) = last
              /\ \/ last.ok
                 \/ ~is_conflict(last.chain)
                 \/ Len(call.calls) = MAX_RETRIES
        /\ ~IsSome(call.out) /\ call.calls # <<>> =>
              LET last == call.calls[Len(call.calls)] IN
              /\ ~last.ok /\ is_conflict(last.chain)
              /\ Len(call.calls) < MAX_RETRIES

----------------------------------------------------------------------------
(* cash_limits.rs: CashLimits::check on its own, for every min, max, daily, *)
(* amount and daily total up to MaxLimit                                     *)

MaxLimit == 4

CheckCalls ==
    {[fn |-> "check", limits |-> [min |-> lo, max |-> hi, daily |-> d],
      amounts |-> [amount |-> a, daily_total |-> t], out |-> None] :
        lo \in 0..MaxLimit, hi \in 0..MaxLimit, d \in 0..MaxLimit,
        a \in -1..MaxLimit, t \in 0..MaxLimit}

LInit == AllOff /\ call \in CheckCalls

\* the call limits.check(amounts)
CheckCall ==
    /\ call.fn = "check"
    /\ ~IsSome(call.out)
    /\ call' = [call EXCEPT !.out = Some(CashLimits_check(call.limits, call.amounts))]
    /\ UNCHANGED <<dbVars, nodeVars, procVars, histVars, cw, stream>>

LNext == CheckCall

SpecLimits == LInit /\ [][LNext]_vars

\* C23: CashLimits::check returns AmountTooLow iff amount < min; otherwise
\* AmountTooHigh iff amount > max; otherwise DailyLimitExceeded iff
\* daily_total + amount > daily; otherwise Ok. amount = min and amount = max
\* are accepted, daily_total + amount = daily is accepted and daily + 1 is
\* rejected, and AmountTooLow takes precedence over the other two errors.
C23_Check ==
    call.fn = "check" /\ IsSome(call.out) =>
        LET out == Unwrap(call.out)
            amount == call.amounts.amount
            total == call.amounts.daily_total + amount
            lim == call.limits
        IN /\ out = "AmountTooLow" <=> amount < lim.min
           /\ amount >= lim.min => (out = "AmountTooHigh" <=> amount > lim.max)
           /\ amount >= lim.min /\ amount <= lim.max
                 => (out = "DailyLimitExceeded" <=> total > lim.daily)
           /\ amount >= lim.min /\ amount <= lim.max /\ total <= lim.daily => out = "Ok"
           /\ amount = lim.min /\ amount = lim.max /\ total = lim.daily => out = "Ok"
           /\ amount = lim.min /\ amount <= lim.max /\ total = lim.daily + 1
                 => out = "DailyLimitExceeded"
           /\ amount < lim.min /\ amount > lim.max /\ total > lim.daily
                 => out = "AmountTooLow"

\* amount = min = max is accepted with the daily limit met exactly
C23_Witness ==
    /\ call.fn = "check"
    /\ call.amounts.amount = call.limits.min
    /\ call.amounts.amount = call.limits.max
    /\ call.amounts.amount > 0
    /\ call.amounts.daily_total > 0
    /\ call.amounts.daily_total + call.amounts.amount = call.limits.daily
    /\ call.out = Some("Ok")

----------------------------------------------------------------------------
(* invoice::create: callers with a ReceiveGrant of either user create        *)
(* invoices with every kind of amount, memo and expiry, one call at a time.  *)
(* A memo is given by its length in bytes. Every invoices row is younger     *)
(* than a day.                                                               *)

MAX_MEMO_BYTES == 639
MAX_EXPIRY_SECONDS == 31536000
MaxInvoices == 3

InvoiceIds == <<"i1", "i2", "i3", "i4", "i5">>
RawInvoices == <<"lnbc1", "lnbc2", "lnbc3", "lnbc4", "lnbc5">>

\* the invoice limits of the configuration
InvoiceLimits == [min |-> 1, max |-> msats(2), daily |-> msats(3)]

\* queries::daily_total: SUM(CAST(amount_msats AS INTEGER)) over the rows of
\* the user; the cast of a row above I32_MAX is an error and the call panics
invoice_daily_total(user_id) ==
    LET rows == {id \in DOMAIN invoices : invoices[id].user_id = user_id} IN
    [panic |-> \E id \in rows : invoices[id].amount_msats > I32_MAX,
     sum |-> SumOver([id \in rows |-> invoices[id].amount_msats], rows)]

Invoice_create_unchecked_expiry(user_id, amount, memo, expiry, limits, daily_total, id, raw) ==
    IF amount <= 0 THEN [err |-> "AmountNotPositive", invoice |-> NoInvoice]
    ELSE IF IsSome(memo) /\ Unwrap(memo) > MAX_MEMO_BYTES
    THEN [err |-> "InvalidMemo", invoice |-> NoInvoice]
    ELSE LET c == CashLimits_check(limits, [amount |-> amount, daily_total |-> daily_total])
         IN IF c # "Ok" THEN [err |-> c, invoice |-> NoInvoice]
            ELSE [err |-> "none",
                  invoice |-> [id |-> id, user_id |-> user_id, amount |-> amount,
                               raw |-> raw, settlement |-> None]]

\* Invoice::create; `raw` is what node.create_invoice returns if it is called
Invoice_create(user_id, amount, memo, expiry, limits, daily_total, id, raw) ==
    IF amount <= 0 THEN [err |-> "AmountNotPositive", invoice |-> NoInvoice]
    ELSE IF IsSome(memo) /\ Unwrap(memo) > MAX_MEMO_BYTES
    THEN [err |-> "InvalidMemo", invoice |-> NoInvoice]
    ELSE IF expiry <= 0 THEN [err |-> "InvalidExpiry", invoice |-> NoInvoice]
    ELSE IF expiry > MAX_EXPIRY_SECONDS THEN [err |-> "InvalidExpiry", invoice |-> NoInvoice]
    ELSE LET c == CashLimits_check(limits, [amount |-> amount, daily_total |-> daily_total])
         IN IF c # "Ok" THEN [err |-> c, invoice |-> NoInvoice]
            ELSE [err |-> "none",
                  invoice |-> [id |-> id, user_id |-> user_id, amount |-> amount,
                               raw |-> raw, settlement |-> None]]

\* invoice::create: daily_total, Invoice::create with node.create_invoice, and
\* the upsert of the row
InvoiceCreate(user_id, amount, memo, expiry) ==
    /\ call.fn \in {"none", "invoice::create"}
    /\ Cardinality(DOMAIN node_invoices) < MaxInvoices
    /\ LET n == Cardinality(DOMAIN node_invoices) + 1
           t == invoice_daily_total(user_id)
           c == Invoice_create(user_id, amount, memo, expiry, InvoiceLimits, t.sum,
                               InvoiceIds[n], RawInvoices[n])
           args == [fn |-> "invoice::create", user_id |-> user_id, amount |-> amount,
                    memo |-> memo, expiry |-> expiry, daily_total |-> t.sum]
       IN IF t.panic
          THEN /\ call' = args @@ [out |-> "panic"]
               /\ UNCHANGED <<invoices, node_invoices>>
          ELSE IF c.err # "none"
          THEN /\ call' = args @@ [out |-> c.err]
               /\ UNCHANGED <<invoices, node_invoices>>
          ELSE /\ call' = args @@ [out |-> "Ok"]
               /\ node_invoices' = (RawInvoices[n] :> [settle_index |-> 0,
                                                       amt_paid_msat |-> amount])
                                       @@ node_invoices
               /\ invoices' = Invoice_upsert(c.invoice)
    /\ UNCHANGED <<balance, reservations, withdrawals, payments, deposits, tx_outs>>
    /\ UNCHANGED <<chain, sent, paid, procVars, histVars, cw, stream>>

CreateAmounts == {-1, 0, 1, msats(1), msats(2), msats(2) + 1}
CreateMemos == {None, Some(0), Some(MAX_MEMO_BYTES), Some(MAX_MEMO_BYTES + 1)}
CreateExpiries == {-1, 0, 1, MAX_EXPIRY_SECONDS, MAX_EXPIRY_SECONDS + 1}

VInit == AllOff /\ call = NoCall

VNext ==
    \E u \in Users, a \in CreateAmounts, m \in CreateMemos, e \in CreateExpiries :
        InvoiceCreate(u, a, m, e)

SpecInvoiceCreate == VInit /\ [][VNext]_vars

ValidationErrors == {"AmountNotPositive", "InvalidMemo", "InvalidExpiry"}
LimitErrors == {"AmountTooLow", "AmountTooHigh", "DailyLimitExceeded"}

\* one call of invoice::create, by its arguments and its result
C24_Step ==
    call'.fn = "invoice::create" =>
        LET c == call'
            amountOk == c.amount > 0
            memoOk == ~IsSome(c.memo) \/ Unwrap(c.memo) <= MAX_MEMO_BYTES
            expiryOk == c.expiry > 0 /\ c.expiry <= MAX_EXPIRY_SECONDS
        IN /\ ~amountOk => c.out = "AmountNotPositive"
           /\ amountOk /\ ~memoOk => c.out = "InvalidMemo"
           /\ amountOk /\ memoOk /\ ~expiryOk => c.out = "InvalidExpiry"
           /\ amountOk /\ memoOk /\ expiryOk
                 => /\ c.out \in {"Ok"} \cup LimitErrors
                    /\ c.out = CashLimits_check(InvoiceLimits,
                                   [amount |-> c.amount, daily_total |-> c.daily_total])
           /\ c.out # "Ok" => node_invoices' = node_invoices /\ invoices' = invoices
           /\ c.out = "Ok" =>
                 /\ Cardinality(DOMAIN node_invoices') = Cardinality(DOMAIN node_invoices) + 1
                 /\ Cardinality(DOMAIN invoices') = Cardinality(DOMAIN invoices) + 1

----------------------------------------------------------------------------
(* payment::send from its creation: a caller with a SpendGrant of u1 sends   *)
(* every kind of invoice and explicit amount, after no payment or after an   *)
(* earlier payment of the same day that succeeded.                           *)

EarlierAmounts == {msats(1), msats(2)}

EarlierPayment(a) ==
    [user_id |-> "u1", status |-> status_to_i32("Succeeded"),
     reservation_id |-> Some(<<"p0", 1>>), invoice |-> "ln0", amount_msats |-> a,
     fee_msats |-> Some(0), failure_reason |-> None]

PayInvoices ==
    {[raw |-> "garbage", amount |-> None],
     [raw |-> "lnA", amount |-> Some(msats(1))],
     [raw |-> "lnB", amount |-> None],
     [raw |-> "lnC", amount |-> Some(msats(2) + 1)]}

PayAmounts == {None, Some(0), Some(msats(1)), Some(msats(2)), Some(msats(2) + 1)}

PInit ==
    /\ balance = [u \in Users |-> msats(InitialSats)]
    /\ withdrawals = <<>>
    /\ deposits = <<>>
    /\ tx_outs = <<>>
    /\ invoices = <<>>
    /\ \/ payments = <<>> /\ reservations = <<>>
       \/ \E a \in EarlierAmounts :
             /\ payments = ("p0" :> EarlierPayment(a))
             /\ reservations = (<<"p0", 1>> :> [user_id |-> "u1", amount |-> a,
                                                status |-> "Debited"])
    /\ InitNode
    /\ InitHist
    /\ wst = [p \in WStarters |-> WstIdle("off")]
    /\ pay = [p \in Payers |-> PayIdle("idle")]
    /\ dl = [p \in DepListeners |-> DlIdle("off")]
    /\ ic = [p \in Completers |-> IcIdle("off")]
    /\ snd = [p \in Senders |-> SndIdle("off")]
    /\ wl = [p \in WListeners |-> WlIdle("off")]
    /\ cw = NoChainWorkers
    /\ stream = NoStreams

PNext ==
    \/ \E p \in Payers, inv \in PayInvoices, amt \in PayAmounts : PayCall(p, inv, amt)
    \/ \E p \in Payers, probe \in ProbeResults(LedgerErrors) : PayPrepareLoad(p, probe)
    \/ \E p \in Payers : PayPrepareWrite(p)
    \/ \E p \in Payers, o \in {"Ok"} \cup LedgerErrors : PaySendLoad(p, o)
    \/ \E p \in Payers : PaySendWrite(p)

SpecPayCreate == PInit /\ [][PNext]_vars

\* what the call payment::send(invoice, amount) of p does up to the first
\* retry block
C25_Call(p, invoice, amount) ==
    LET parsed == RawInvoice_parse(invoice)
        both == IsSome(parsed.amount) /\ IsSome(amount)
        neither == ~IsSome(parsed.amount) /\ ~IsSome(amount)
        a == IF IsSome(amount) THEN Unwrap(amount) ELSE Unwrap(parsed.amount)
        accepted == pay'[p].pc = "prepare"
    IN /\ parsed.ok /\ both => pay'[p].result = "AmountSpecifiedTwice"
       /\ parsed.ok /\ neither => pay'[p].result = "AmountNotSpecified"
       /\ ~parsed.ok => pay'[p].result = "InvalidInvoice"
       /\ parsed.ok /\ ~both /\ ~neither =>
             /\ accepted <=>
                   CashLimits_check(PaymentLimits,
                       [amount |-> a,
                        daily_total |-> payment_daily_total(UserOf(p)).sum]) = "Ok"
             /\ ~accepted => pay'[p].result \in {"AmountTooLow", "AmountTooHigh",
                                                 "DailyLimitExceeded"}
             /\ accepted =>
                   /\ pay'[p].payment.amount = a
                   /\ p \notin DOMAIN payments
                   /\ payments'[p].amount_msats = a
                   /\ payments'[p].status = status_to_i32("New")
       /\ accepted => parsed.ok /\ ~both /\ ~neither
       /\ ~accepted =>
             /\ pay'[p].pc = "done"
             /\ payments' = payments
             /\ paid' = paid
       /\ balance' = balance
       /\ reservations' = reservations

----------------------------------------------------------------------------
(* withdrawal::start of u1 with every kind of amount, next to a payment of   *)
(* u1 that reserves and refunds on the same balance.                         *)

StartAmounts == -1..(InitialSats + 1)
StartFees == 0..MaxFeeSats

TInit ==
    /\ InitDb
    /\ InitNode
    /\ InitHist
    /\ wst = [p \in WStarters |-> WstIdle(IF p \in LedgerWStarters THEN "idle" ELSE "off")]
    /\ pay = [p \in Payers |-> PayIdle("idle")]
    /\ dl = [p \in DepListeners |-> DlIdle("off")]
    /\ ic = [p \in Completers |-> IcIdle("off")]
    /\ snd = [p \in Senders |-> SndIdle("off")]
    /\ wl = [p \in WListeners |-> WlIdle("off")]
    /\ cw = NoChainWorkers
    /\ stream = NoStreams

TNext ==
    \/ \E p \in LedgerWStarters, a \in StartAmounts : WStartCall(p, "ext", a)
    \/ \E p \in LedgerWStarters, fee \in StartFees : WStartLoad(p, fee)
    \/ \E p \in LedgerWStarters : WStartWrite(p)
    \/ \E p \in Payers : PayCall(p, [raw |-> "lnA", amount |-> Some(msats(1))], None)
    \/ \E p \in Payers, probe \in ProbeResults(LedgerErrors) : PayPrepareLoad(p, probe)
    \/ \E p \in Payers : PayPrepareWrite(p)
    \/ \E p \in Payers, o \in {"Ok"} \cup LedgerErrors : PaySendLoad(p, o)
    \/ \E p \in Payers : PaySendWrite(p)

SpecStart == TInit /\ [][TNext]_vars

\* nothing of the call of p is stored
NothingPersisted(p) ==
    /\ \A id \in DOMAIN reservations : id[1] # p
    /\ \A id \in DOMAIN withdrawals : id[1] # p

\* one iteration of the retry block of withdrawal::start, where the node
\* would estimate the fee `fee`
C26_Load(p, fee) ==
    LET s == wst[p]
        b == balance[UserOf(p)]
        r == Withdrawal_start(UserOf(p), balance_get(UserOf(p)), s.address, s.amount,
                              fee, <<p, s.i>>)
    IN /\ s.amount <= 0 =>
             /\ wst'[p].pc = "done"
             /\ wst'[p].result = "AmountNotPositive"
             /\ ~r.estimated
             /\ \A f \in StartFees : WStartLoad(p, f)
       /\ s.amount > 0 /\ s.amount * 1000 + fee * 1000 > b =>
             /\ wst'[p].pc = "done"
             /\ wst'[p].result = "InsufficientBalance"
       /\ wst'[p].result \in {"AmountNotPositive", "InsufficientBalance"} =>
             /\ s.amount <= 0 \/ s.amount * 1000 + fee * 1000 > b
             /\ UNCHANGED <<dbVars, resWrites>>
             /\ NothingPersisted(p)'

\* C26: withdrawal::start with amount <= 0 returns AmountNotPositive without
\* calling the node's fee estimate, and with amount*1000 + fee*1000 greater than
\* the balance returns InsufficientBalance; in both cases no balance change, no
\* reservation and no withdrawal row is persisted.
C26_StartRejects ==
    [][\A p \in LedgerWStarters, fee \in StartFees :
          WStartLoad(p, fee) => C26_Load(p, fee)]_vars

\* the second iteration of a call, after a conflict with the payment, finds
\* the balance too low
C26_Witness ==
    /\ wst["w1"].pc = "done"
    /\ wst["w1"].i = 2
    /\ wst["w1"].result = "InsufficientBalance"

----------------------------------------------------------------------------
(* worker::start: the tasks main.rs spawns for the WithdrawalSender, the two *)
(* chain::Worker instances and the InvoiceListener. A pass of run() returns, *)
(* panics, or goes on; the passes of a task are counted up to MaxPasses.     *)

MaxPasses == 1

Workers == {"WithdrawalSender", "chain::Worker<withdrawal>", "chain::Worker<deposit>",
            "InvoiceListener"}

RunOutcomes == {"returned", "panicked"}

swallow_panic_rethrowing(outcome) == outcome

\* swallow_panic: catch_unwind, and the result is dropped
swallow_panic(outcome) == "returned"

Task(pc, passes, last) == [pc |-> pc, passes |-> passes, last |-> last]

\* worker::start: tokio::spawn, and the loop enters worker.run()
WorkerInit ==
    /\ AllOff
    /\ call = [fn |-> "worker::start", tasks |-> [w \in Workers |-> Task("run", 0, "none")]]

\* worker.run() of task w ends with `outcome`; swallow_panic(..).await returns
\* and the loop sleeps, or the panic leaves the task
WorkerRunEnds(w, outcome) ==
    /\ call.fn = "worker::start"
    /\ call.tasks[w].pc = "run"
    /\ call' = [call EXCEPT !.tasks[w] =
           IF swallow_panic(outcome) = "panicked"
           THEN Task("dead", @.passes, outcome)
           ELSE Task("sleep", @.passes, outcome)]
    /\ UNCHANGED <<dbVars, nodeVars, procVars, histVars, cw, stream>>

\* tokio::time::sleep(W::timeout()) of task w is over; the loop calls run()
WorkerWakes(w) ==
    /\ call.fn = "worker::start"
    /\ call.tasks[w].pc = "sleep"
    /\ call' = [call EXCEPT !.tasks[w] =
           Task("run", IF @.passes < MaxPasses THEN @.passes + 1 ELSE @.passes, @.last)]
    /\ UNCHANGED <<dbVars, nodeVars, procVars, histVars, cw, stream>>

WorkerNext ==
    \/ \E w \in Workers, o \in RunOutcomes : WorkerRunEnds(w, o)
    \/ \E w \in Workers : WorkerWakes(w)

\* a sleep of W::timeout() ends
WorkerFair == \A w \in Workers : WF_vars(WorkerWakes(w))

SpecWorker == WorkerInit /\ [][WorkerNext]_vars /\ WorkerFair

\* every task is in its loop
C27_State ==
    call.fn = "worker::start" =>
        \A w \in Workers : call.tasks[w].pc \in {"run", "sleep"}

\* the end of a pass of one task changes no other task, and leads to the sleep
C27_Step ==
    \A w \in Workers, o \in RunOutcomes :
        WorkerRunEnds(w, o) =>
            /\ call'.tasks[w].pc = "sleep"
            /\ \A v \in Workers \ {w} : call'.tasks[v] = call.tasks[v]

\* C27: a started worker keeps running for ever: whenever worker.run() returns
\* or panics, the panic is contained and run() is invoked again after the
\* timeout of the worker; a panic in one worker (or in one pass) never stops
\* later passes of that worker or of any other worker.
C27_WorkerRunsForever ==
    /\ []C27_State
    /\ [][C27_Step]_vars
    /\ \A w \in Workers :
          (call.fn = "worker::start" /\ call.tasks[w].pc = "sleep")
              ~> (call.tasks[w].pc = "run")

\* a task runs again after a pass that panicked, next to a task that panicked
\* as well
C27_Witness ==
    /\ call.fn = "worker::start"
    /\ call.tasks["WithdrawalSender"] = Task("run", 1, "panicked")
    /\ call.tasks["InvoiceListener"].last = "panicked"

----------------------------------------------------------------------------
(* auth: get_spend_grant, get_receive_grant and get_read_grant on their own, *)
(* for every permission set of the token row of u1, enabled or disabled, and *)
(* for presented tokens with and without a row.                              *)

\* TokenHash::generate: the SHA256 of the token in hex, one hash per token
TokenHash_generate(token) == <<"sha256", token>>

Permissions == [can_spend : BOOLEAN, can_receive : BOOLEAN, can_read : BOOLEAN]

\* the auth_tokens table: a row of u1 with any permissions, and a row of u2
AuthTables ==
    {{[id |-> "tokenA", user_id |-> "u1", token_hash |-> TokenHash_generate("secretA"),
       permissions |-> perm, disabled |-> d],
      [id |-> "tokenB", user_id |-> "u2", token_hash |-> TokenHash_generate("secretB"),
       permissions |-> [can_spend |-> TRUE, can_receive |-> TRUE, can_read |-> TRUE],
       disabled |-> None]} :
        perm \in Permissions, d \in {None, Some(1)}}

PresentedTokens == {"secretA", "secretB", "secretX", "tokenA"}
GrantKinds == {"Spend", "Receive", "Read"}

AccessDenied == [ok |-> FALSE, grant |-> <<>>]
Grant(kind, token) ==
    [ok |-> TRUE, grant |-> [kind |-> kind, token_id |-> token.id, user_id |-> token.user_id]]

\* queries::get_token: the row with the hash of the token, if there is one
get_token(table, token) ==
    LET rows == {row \in table : row.token_hash = TokenHash_generate(token)} IN
    IF rows = {} THEN None ELSE Some(CHOOSE row \in rows : TRUE)

is_enabled(token) == ~IsSome(token.disabled)

spend_grant_when_disabled(token) ==
    IF token.permissions.can_spend THEN Grant("Spend", token) ELSE AccessDenied

\* Token::spend_grant
spend_grant(token) ==
    IF is_enabled(token) /\ token.permissions.can_spend
    THEN Grant("Spend", token) ELSE AccessDenied

\* Token::receive_grant
receive_grant(token) ==
    IF is_enabled(token) /\ token.permissions.can_receive
    THEN Grant("Receive", token) ELSE AccessDenied

\* Token::read_grant
read_grant(token) ==
    IF is_enabled(token) /\ token.permissions.can_read
    THEN Grant("Read", token) ELSE AccessDenied

\* auth::get_spend_grant, get_receive_grant, get_read_grant
get_grant(kind, table, token) ==
    LET found == get_token(table, token) IN
    IF ~IsSome(found) THEN AccessDenied
    ELSE CASE kind = "Spend" -> spend_grant(Unwrap(found))
           [] kind = "Receive" -> receive_grant(Unwrap(found))
           [] kind = "Read" -> read_grant(Unwrap(found))

GrantCalls ==
    {[fn |-> "get_grant", kind |-> k, auth_tokens |-> t, token |-> tok, out |-> None] :
        k \in GrantKinds, t \in AuthTables, tok \in PresentedTokens}

AInit == AllOff /\ call \in GrantCalls

\* the call auth::get_<kind>_grant(db, token)
GrantCall ==
    /\ call.fn = "get_grant"
    /\ ~IsSome(call.out)
    /\ call' = [call EXCEPT !.out = Some(get_grant(call.kind, call.auth_tokens, call.token))]
    /\ UNCHANGED <<dbVars, nodeVars, procVars, histVars, cw, stream>>

ANext == GrantCall

SpecAuth == AInit /\ [][ANext]_vars

\* the permission flag a grant of the kind needs
Permits(row, kind) ==
    CASE kind = "Spend" -> row.permissions.can_spend
      [] kind = "Receive" -> row.permissions.can_receive
      [] kind = "Read" -> row.permissions.can_read

\* C28: a Spend, Receive or Read grant is produced for a presented token only
\* if a token row with that hash exists, the token is not disabled and the
\* permission flag of the kind (can_spend, can_receive, can_read) is set; in
\* every other case the result is AccessDenied; the grant carries the id and
\* the user id of that token.
C28_Grants ==
    call.fn = "get_grant" /\ IsSome(call.out) =>
        LET out == Unwrap(call.out)
            valid == {row \in call.auth_tokens :
                         /\ row.token_hash = TokenHash_generate(call.token)
                         /\ row.disabled = None
                         /\ Permits(row, call.kind)}
        IN /\ out.ok <=> valid # {}
           /\ ~out.ok => out = AccessDenied
           /\ out.ok => \E row \in valid :
                            out.grant = [kind |-> call.kind, token_id |-> row.id,
                                         user_id |-> row.user_id]

\* the token of u1 may receive and read but not spend: a Spend grant is
\* denied to it
C28_Witness ==
    /\ call.fn = "get_grant"
    /\ call.kind = "Spend"
    /\ call.token = "secretA"
    /\ \E row \in call.auth_tokens :
          /\ row.id = "tokenA"
          /\ row.disabled = None
          /\ row.permissions = [can_spend |-> FALSE, can_receive |-> TRUE, can_read |-> TRUE]
    /\ call.out = Some(AccessDenied)

----------------------------------------------------------------------------
(* The Deposit listener as main.rs starts it, one instance: the wallet holds *)
(* the output of a deposit to a1 and, once the WithdrawalSender has          *)
(* broadcast the withdrawal of u1, an output that pays the outside address.  *)

EInit ==
    /\ InitDb
    /\ InitNode
    /\ InitHist
    /\ wst = [p \in WStarters |-> WstIdle(IF p \in LedgerWStarters THEN "idle" ELSE "off")]
    /\ pay = [p \in Payers |-> PayIdle("off")]
    /\ dl = [p \in DepListeners |-> DlIdle(IF p = "d1" THEN "idle" ELSE "off")]
    /\ ic = [p \in Completers |-> IcIdle("off")]
    /\ snd = [p \in Senders |-> SndIdle(IF p = "s1" THEN "idle" ELSE "off")]
    /\ wl = [p \in WListeners |-> WlIdle("off")]
    /\ cw = NoChainWorkers
    /\ stream = NoStreams

ENext ==
    \/ \E p \in LedgerWStarters : WStartCall(p, "ext", MaxAmountSats)
    \/ \E p \in LedgerWStarters, fee \in 0..MaxFeeSats : WStartLoad(p, fee)
    \/ \E p \in LedgerWStarters : WStartWrite(p)
    \/ \E p \in {"s1"} : SenderRun(p) \/ SenderLock(p) \/ SenderSend(p) \/ SenderWrite(p)
    \/ \E p \in {"d1"} : DepositProcess(p) \/ DepositGet(p)
    \/ \E p \in {"d1"} : DepositBalance(p) \/ DepositWrite(p)
    \/ \E k \in DOMAIN chain : Mine(k, FIRST_BLOCK + 1)

SpecDepositListener == EInit /\ [][ENext]_vars

\* every deposit is of a stored deposit address and of the user of that address
C29_State ==
    \A id \in DOMAIN deposits :
        /\ deposits[id].address \in DOMAIN deposit_addresses
        /\ deposits[id].user_id = deposit_addresses[deposits[id].address]

\* a step of a listener that processes an output of another address
C29_Step ==
    \A p \in DepListeners :
        /\ dl[p].pc # "off"
        /\ dl'[p] # dl[p]
        /\ dl[p].tx_out.address \notin DOMAIN deposit_addresses
        /\ dl[p].pc # "idle"
        => /\ deposits' = deposits
           /\ tx_outs' = tx_outs
           /\ balance' = balance
           /\ dl'[p].pc = "idle"
           /\ dl'[p].result = "unrelated"

\* C29: the Deposit listener creates a Deposit only for a TxOut whose address is
\* a stored deposit address, owned by the user of that address; a TxOut that
\* pays any other address creates no deposit and no tx_outs row and changes no
\* balance.
C29_OnlyDepositAddresses == []C29_State /\ [][C29_Step]_vars

\* the listener has set the output to the outside address aside, and holds a
\* deposit to a1
C29_Witness ==
    /\ dl["d1"].result = "unrelated"
    /\ \E id \in DOMAIN deposits : deposits[id].address = "a1"
    /\ \E k \in DOMAIN chain : chain[k].address = "ext"

\* a step of a listener that commits
C30_Step ==
    \A p \in DepListeners :
        dl[p].pc # "off" /\ dl'[p] # dl[p] =>
            LET s == dl[p]
                u == s.deposit.user_id
            IN /\ (deposits' # deposits \/ tx_outs' # tx_outs \/ balance' # balance)
                     => s.pc = "write"
               /\ s.pc = "write" /\ deposits' # deposits /\ ~is_confirmed(s.tx_out.tx)
                     => /\ s.deposit.id \notin DOMAIN deposits
                        /\ ~deposits'[s.deposit.id].confirmed
                        /\ balance' = balance
               /\ balance' # balance
                     => /\ is_confirmed(s.tx_out.tx)
                        /\ deposits'[s.deposit.id].confirmed
                        /\ deposits'[s.deposit.id].tx = KeyOf(s.tx_out)
                        /\ balance' = [balance EXCEPT ![u] = @ + s.tx_out.amount * 1000]

\* C30: processing an unconfirmed TxOut that pays a known deposit address
\* creates a Deposit with confirmed = NULL and leaves the balance of the user
\* unchanged; the balance changes only when a confirmed TxOut of that deposit is
\* processed, and then by amount_sats * 1000.
C30_CreditOnConfirmation == [][C30_Step]_vars

\* the deposit was started unconfirmed and credited after its block
C30_Witness ==
    /\ dl["d1"].result = "confirmed"
    /\ \E id \in DOMAIN deposits : deposits[id].confirmed /\ Count(resWrites, id) = 0
    /\ \E k \in DOMAIN credits : credits[k] = 1
    /\ balance["u1"] >= msats(InitialSats) + 1000

----------------------------------------------------------------------------
(* The chain listener of the withdrawals as main.rs starts it, with no       *)
(* restart: the wallet holds the output of a deposit and the output that the *)
(* WithdrawalSender broadcasts, and blocks are mined in the window of one    *)
(* query, at its last block, and past it.                                    *)

ListenHeights == {FIRST_BLOCK + 1, FIRST_BLOCK + NUM_BLOCKS - 1, FIRST_BLOCK + NUM_BLOCKS + 2}

\* the heights of the blocks that hold an output of the wallet
MinedHeights == {Unwrap(chain[k].block_height) :
                    k \in {x \in DOMAIN chain : IsSome(chain[x].block_height)}}

GInit ==
    /\ InitDb
    /\ InitNode
    /\ InitHist
    /\ wst = [p \in WStarters |-> WstIdle(IF p \in LedgerWStarters THEN "idle" ELSE "off")]
    /\ pay = [p \in Payers |-> PayIdle("off")]
    /\ dl = [p \in DepListeners |-> DlIdle("off")]
    /\ ic = [p \in Completers |-> IcIdle("off")]
    /\ snd = [p \in Senders |-> SndIdle(IF p = "s1" THEN "idle" ELSE "off")]
    /\ wl = [p \in WListeners |-> WlIdle(IF p = "l1" THEN "idle" ELSE "off")]
    /\ cw = [p \in WListeners |->
                IF p = "l1" THEN ChainWorker("idle", get_chain_tip(FIRST_BLOCK))
                ELSE ChainWorker("off", FIRST_BLOCK)]
    /\ stream = NoStreams

\* a block with the transactions of the outputs ks is mined on top of the chain
MineBlock(ks, h) ==
    /\ ks # {}
    /\ \A k \in ks : ~IsSome(chain[k].block_height)
    /\ \A m \in MinedHeights : m < h
    /\ chain' = [k \in DOMAIN chain |->
                    IF k \in ks THEN [chain[k] EXCEPT !.block_height = Some(h)]
                    ELSE chain[k]]
    /\ UNCHANGED <<call, cw, stream>>
    /\ UNCHANGED <<dbVars, sent, paid, node_invoices, procVars, histVars>>

GNext ==
    \/ \E p \in LedgerWStarters : WStartCall(p, "ext", MaxAmountSats)
    \/ \E p \in LedgerWStarters, fee \in 0..MaxFeeSats : WStartLoad(p, fee)
    \/ \E p \in LedgerWStarters : WStartWrite(p)
    \/ SenderRun("s1") \/ SenderLock("s1") \/ SenderSend("s1") \/ SenderWrite("s1")
    \/ ChainRun("l1") \/ ChainProcess("l1") \/ ChainAdvance("l1") \/ ChainWake("l1")
    \/ WListenerConfirm("l1") \/ WListenerWrite("l1") \/ WListenerFails("l1")
    \/ \E ks \in SUBSET DOMAIN chain, h \in ListenHeights : MineBlock(ks, h)

\* worker::start runs the chain worker for ever, and the sender releases the
\* row lock that the listener waits for
GFair ==
    /\ WF_vars(ChainRun("l1")) /\ WF_vars(ChainProcess("l1"))
    /\ WF_vars(ChainAdvance("l1")) /\ WF_vars(ChainWake("l1"))
    /\ WF_vars(WListenerConfirm("l1")) /\ SF_vars(WListenerWrite("l1"))
    /\ WF_vars(SenderSend("s1")) /\ WF_vars(SenderWrite("s1"))

SpecListen == GInit /\ [][GNext]_vars /\ GFair

\* the heights of the confirmed outputs that a query returned
BatchHeights(p) ==
    {Unwrap(t.tx.block_height) : t \in {x \in cw[p].batch : IsSome(x.tx.block_height)}}

\* the end of a cycle in which Listener::process returned for every output
C31_Step ==
    \A p \in WListeners :
        /\ cw[p].pc # "off" => cw'[p].chain_tip >= cw[p].chain_tip
        /\ cw[p].pc = "process" /\ cw'[p].pc # "process"
             /\ wl[p].result \notin ListenerPanics
           => IF BatchHeights(p) # {}
              THEN /\ \E h \in BatchHeights(p) :
                        /\ \A m \in BatchHeights(p) : m <= h
                        /\ cw'[p].chain_tip = h + 1
                   /\ cw'[p].pc = "idle"
              ELSE /\ cw'[p].chain_tip = cw[p].chain_tip
                   /\ cw'[p].pc = "sleep"
        /\ cw[p].pc = "idle" /\ cw'[p].pc = "process"
           => cw'[p].batch = {TxOutOf(k) : k \in get_tx_outs(cw[p].chain_tip, 10)}

\* the node has no confirmed output at or above the chain tip of the worker
NothingAhead(p) == \A h \in MinedHeights : h < cw[p].chain_tip

\* C31: in each cycle of the chain listener, if a returned output is confirmed
\* the chain tip becomes the highest block of the returned outputs plus one and
\* another cycle follows; if none is confirmed the run ends with the chain tip
\* unchanged. The chain tip never decreases, and a run ends once the node has no
\* confirmed output at a height at or above the chain tip.
C31_Cycle ==
    /\ [][C31_Step]_vars
    /\ \A p \in {"l1"} : (cw[p].pc # "sleep" /\ NothingAhead(p)) ~> cw[p].pc = "sleep"

\* the worker has passed two blocks with outputs, one cycle each, and its run
\* has ended on a query that returned none
C31_Witness ==
    /\ cw["l1"].pc = "sleep"
    /\ cw["l1"].chain_tip = FIRST_BLOCK + NUM_BLOCKS + 3
    /\ MinedHeights = {FIRST_BLOCK + NUM_BLOCKS - 1, FIRST_BLOCK + NUM_BLOCKS + 2}

----------------------------------------------------------------------------
(* Properties of the start of a chain listener *)

\* the block heights stored in tx_outs
StoredHeights ==
    {h \in FIRST_BLOCK..(FIRST_BLOCK + NUM_BLOCKS) :
        \E k \in DOMAIN tx_outs : tx_outs[k].block_height = Some(h)}

\* the chain tip of worker p is `after` blocks past the highest stored height,
\* or the configured first block when no height is stored
StartsAt(p, after) ==
    IF StoredHeights = {} THEN cw'[p].chain_tip = FIRST_BLOCK
    ELSE \E h \in StoredHeights :
            /\ \A m \in StoredHeights : m <= h
            /\ cw'[p].chain_tip = h + after

\* C32 as stated: when a chain listener starts, its chain tip is the highest
\* block_height stored in tx_outs plus one, or the configured first_block when
\* no stored output has a block height.
C32_StartsAfterStored ==
    /\ cw["l1"].chain_tip = FIRST_BLOCK
    /\ [][Restart => \A p \in WListeners : cw[p].pc # "off" => StartsAt(p, 1)]_vars

\* C32, amended: when a chain listener starts, its chain tip is the highest
\* block_height stored in tx_outs itself, so that the blocks from that height on
\* are queried again, or the configured first_block when no stored output has a
\* block height.
C32_StartsAtStored ==
    /\ cw["l1"].chain_tip = FIRST_BLOCK
    /\ [][Restart => \A p \in WListeners :
                         cw[p].pc # "off" => cw'[p].pc = "idle" /\ StartsAt(p, 0)]_vars

\* the service was restarted after the confirmation of the withdrawal in block
\* FIRST_BLOCK + 1 was stored: the listener starts at that block
C32_Witness ==
    /\ cw["l1"].chain_tip = FIRST_BLOCK + 1
    /\ cw["l1"].pc = "idle"
    /\ StoredHeights = {FIRST_BLOCK + 1}

----------------------------------------------------------------------------
(* Properties of a successful withdrawal::start *)

\* the withdrawals and the reservations stored for the call of p
WithdrawalsOfCall(p) == {id \in DOMAIN withdrawals : id[1] = p}
ReservationsOfCall(p) == {id \in DOMAIN reservations : id[1] = p}

\* a call has stored one withdrawal and one reservation if it returned Ok, and
\* nothing before that or with an error
C33_State ==
    \A p \in LedgerWStarters :
        LET n == IF wst[p].pc = "done" /\ wst[p].result = "ok" THEN 1 ELSE 0 IN
        /\ Cardinality(WithdrawalsOfCall(p)) = n
        /\ Cardinality(ReservationsOfCall(p)) = n

\* the commit of a call
C33_Step ==
    \A p \in LedgerWStarters :
        wst[p].pc = "write" /\ wst'[p].pc = "done" /\ wst'[p].result = "ok" =>
            \E wid \in DOMAIN withdrawals' \ DOMAIN withdrawals,
               rid \in DOMAIN reservations' \ DOMAIN reservations :
                LET w == withdrawals'[wid]
                    r == reservations'[rid]
                    u == UserOf(p)
                    held == (w.amount_sats + w.fee_sats) * 1000
                IN /\ DOMAIN withdrawals' = DOMAIN withdrawals \cup {wid}
                   /\ DOMAIN reservations' = DOMAIN reservations \cup {rid}
                   /\ \A id \in DOMAIN withdrawals : withdrawals'[id] = withdrawals[id]
                   /\ \A id \in DOMAIN reservations : reservations'[id] = reservations[id]
                   /\ w.amount_sats = wst[p].amount /\ w.amount_sats > 0 /\ w.fee_sats >= 0
                   /\ w.user_id = u /\ w.address = wst[p].address
                   /\ w.tx = None /\ ~w.confirmed
                   /\ w.reservation_id = rid
                   /\ r.status = "Pending" /\ r.amount = held /\ r.user_id = u
                   /\ balance' = [balance EXCEPT ![u] = @ - held]
                   /\ balance'[u] >= 0

\* C33: a successful withdrawal::start commits in one transaction a balance
\* decreased by (amount_sats + fee_sats) * 1000, one Pending reservation of
\* exactly that amount, and one Withdrawal with tx_out = None and confirmed =
\* None whose reservation_id is that reservation; when earlier iterations hit
\* ConflictError, exactly one reservation and one withdrawal are persisted for
\* the call.
C33_StartCommits == []C33_State /\ [][C33_Step]_vars

\* the call committed in a later iteration, with a fee, after a conflict
C33_Witness ==
    /\ wst["w1"].pc = "done" /\ wst["w1"].result = "ok" /\ wst["w1"].i >= 2
    /\ \E id \in WithdrawalsOfCall("w1") : withdrawals[id].fee_sats > 0

----------------------------------------------------------------------------
(* Properties of the Withdrawal listener under repeated delivery *)

\* the withdrawals rows that queries::get_by_tx_out joins to an output
RowsOfTxOut(t) ==
    {id \in DOMAIN withdrawals :
        withdrawals[id].tx = Some(KeyOf(t)) /\ KeyOf(t) \in DOMAIN tx_outs}

\* the outputs that the listener has nothing to do for
NothingToConfirm(t) ==
    \/ ~IsSome(t.tx.block_height)
    \/ RowsOfTxOut(t) = {}
    \/ \A id \in RowsOfTxOut(t) : withdrawals[id].confirmed

\* Worker::run hands an output to Listener::process
C34_Step ==
    \A p \in WListeners : \A t \in cw[p].todo :
        cw'[p].todo = cw[p].todo \ {t} /\ cw'[p].pc = "process" =>
            /\ NothingToConfirm(t) =>
                  /\ wl'[p].pc = "idle"
                  /\ wl'[p].result \notin ListenerPanics
                  /\ UNCHANGED dbVars
            /\ ~NothingToConfirm(t) => wl'[p].pc = "confirm" /\ wl'[p].tx_out = t

\* a confirmed withdrawal and its reservation stay as they are
C34_Kept ==
    \A id \in DOMAIN withdrawals :
        withdrawals[id].confirmed =>
            /\ withdrawals'[id] = withdrawals[id]
            /\ reservations[withdrawals[id].reservation_id].status = "Debited"
            /\ reservations'[withdrawals[id].reservation_id]
                  = reservations[withdrawals[id].reservation_id]

\* C34: the Withdrawal listener is idempotent: processing an unconfirmed TxOut,
\* a TxOut that matches no Withdrawal, or a confirmed TxOut of an already
\* confirmed Withdrawal writes nothing and does not panic, so delivering the
\* same confirmed output again after the confirmation leaves the withdrawal and
\* its Debited reservation unchanged.
C34_ListenerIdempotent == [][C34_Step /\ C34_Kept]_vars

\* the confirmed output was delivered again to the listener after the
\* confirmation was stored
C34_Witness ==
    /\ wl["l1"].result = "already confirmed"
    /\ \E id \in DOMAIN withdrawals :
          /\ withdrawals[id].confirmed
          /\ reservations[withdrawals[id].reservation_id].status = "Debited"
          /\ Count(resWrites, withdrawals[id].reservation_id) = 2

----------------------------------------------------------------------------
(* Properties of the reconciliation at startup *)

\* a step of start_worker before worker::start
C35_Step ==
    \A p \in Completers :
        stream[p].pc = "startup" =>
            \* the InvoiceListener is started after the last unsettled invoice
            /\ stream'[p].pc # "startup" =>
                  stream[p].todo = {} /\ ic[p].pc = "idle" /\ stream'[p].pc = "idle"
            \* the status of the next invoice: Settled is completed, Pending is left
            /\ \A invoice \in stream[p].todo :
                  stream'[p].todo = stream[p].todo \ {invoice} =>
                      IF node_invoices[invoice.raw].settle_index # 0
                      THEN ic'[p].pc = "load" /\ ic'[p].invoice = invoice
                      ELSE ic'[p].pc = "idle" /\ UNCHANGED dbVars
            \* the completion of a settled invoice returns
            /\ stream' = stream /\ ic[p].pc \in {"load", "write"} /\ ic'[p].pc = "idle" =>
                  \A raw \in {ic[p].invoice.raw} :
                      RowSettled(raw)' /\ Count(credits', <<raw>>) = 1

\* C35: the reconciliation at startup completes before the live invoice worker
\* is started, and when it has finished every invoice that was unsettled in the
\* database at startup and that the node reports as Settled is persisted as
\* settled and credited exactly once; invoices that the node reports as Pending
\* are left unchanged.
C35_ReconciledAtStartup == [][C35_Step]_vars

----------------------------------------------------------------------------
(* payment::send with every error that the fee probe can return, next to a   *)
(* withdrawal start of the same user.                                        *)

\* Node::probe_fee turns InvalidPaymentDetails into the fee of the route
ProbeErrors == PaymentErrors \ {"InvalidPaymentDetails"}

BInit == TInit

BNext ==
    \/ \E p \in LedgerWStarters : WStartCall(p, "ext", MaxAmountSats)
    \/ \E p \in LedgerWStarters, fee \in 0..MaxFeeSats : WStartLoad(p, fee)
    \/ \E p \in LedgerWStarters : WStartWrite(p)
    \/ \E p \in Payers : PayCall(p, [raw |-> "lnA", amount |-> Some(msats(1))], None)
    \/ \E p \in Payers, probe \in ProbeResults(PaymentErrors) : PayPrepareLoad(p, probe)
    \/ \E p \in Payers : PayPrepareWrite(p)
    \/ \E p \in Payers, o \in {"Ok", "NoRouteFound"} : PaySendLoad(p, o)
    \/ \E p \in Payers : PaySendWrite(p)

SpecProbe == BInit /\ [][BNext]_vars

\* the failure reasons of the payment errors
CanonicalReason ==
    [Unknown |-> "UNKNOWN", InvoiceExpired |-> "INVOICE_EXPIRED",
     InvoiceAlreadyPaid |-> "INVOICE_ALREADY_PAID", TimedOut |-> "TIMED_OUT",
     NoRouteFound |-> "NO_ROUTE_FOUND", InsufficientLiquidity |-> "INSUFFICIENT_LIQUIDITY"]

\* the payment was failed by its probe: nothing is reserved for it, and
\* node.pay_invoice was not called
C36_State ==
    \A p \in Payers :
        /\ pay[p].pc = "done" /\ pay[p].result \in ProbeErrors
        /\ p \in DOMAIN payments /\ payments[p].fee_msats = None
        =>  /\ payments[p].status = 3
            /\ payments[p].failure_reason = Some(CanonicalReason[pay[p].result])
            /\ payments[p].reservation_id = None
            /\ \A id \in DOMAIN reservations : id[1] # p
            /\ paid[p] = 0

\* the probe of prepare returns an error, and the first retry block ends
C36_Step ==
    \A p \in Payers : \A e \in ProbeErrors :
        /\ PayPrepareLoad(p, ProbeErr(e)) /\ pay'[p].pc # "done" =>
              /\ pay'[p].pc = "prepare_write"
              /\ pay'[p].result = e
              /\ pay'[p].reservation = NoReservation
              /\ pay'[p].payment.fee = None
        /\ pay[p].pc = "prepare_write" /\ pay[p].result = e /\ pay'[p] # pay[p] =>
              /\ payments'[p].status = 3
              /\ payments'[p].failure_reason = Some(CanonicalReason[e])
              /\ payments'[p].reservation_id = None
              /\ UNCHANGED <<balance, reservations>>
              /\ pay'[p].pc = "done"
              /\ pay'[p].result = e
        /\ pay[p].pc = "done" => pay'[p] = pay[p]

\* C36: when the fee probe of payment prepare returns a payment error, the
\* payment is persisted as Failed with the canonical reason string of that
\* error, no reservation is created, the balance is unchanged, and the send
\* block (node.pay_invoice) is never entered for that payment.
C36_ProbeFailure == []C36_State /\ [][C36_Step]_vars

\* the probe timed out while a withdrawal of the same user was committed
C36_Witness ==
    /\ pay["p1"].pc = "done" /\ pay["p1"].result = "TimedOut"
    /\ payments["p1"].failure_reason = Some("TIMED_OUT")
    /\ wst["w1"].result = "ok"
    /\ balance["u1"] < msats(InitialSats)

----------------------------------------------------------------------------
(* Node::get_tx on wallets with two labelled transactions, unconfirmed or    *)
(* mined in the first stride from first_block, at its last block, or in a    *)
(* later stride.                                                             *)

WalletHeights ==
    {None} \cup {Some(FIRST_BLOCK + d) :
                    d \in {1, NUM_BLOCKS_ONE_MONTH, NUM_BLOCKS_ONE_MONTH + 1,
                           2 * NUM_BLOCKS_ONE_MONTH + 1}}

WalletLabels == {<<"w1", 1>>, <<"w1", 2>>}

\* the wallet after send_onchain for both labels: each transaction pays 1 sat to
\* the outside address
Wallets ==
    {[k \in {<<<<l[1], l[2], 1>>, 0>> : l \in WalletLabels} |->
         [block_height |-> h[<<k[1][1], k[1][2]>>], address |-> "ext", amount |-> 1,
          label |-> <<k[1][1], k[1][2]>>]] : h \in [WalletLabels -> WalletHeights]}

XInit ==
    /\ InitDb
    /\ chain \in Wallets
    /\ sent = <<>>
    /\ paid = [p \in Payers |-> 0]
    /\ node_invoices = ("lnbc1" :> [settle_index |-> 0, amt_paid_msat |-> msats(1)])
    /\ InitHist
    /\ wst = [p \in WStarters |-> WstIdle("off")]
    /\ pay = [p \in Payers |-> PayIdle("off")]
    /\ dl = [p \in DepListeners |-> DlIdle("off")]
    /\ ic = [p \in Completers |-> IcIdle("off")]
    /\ snd = [p \in Senders |-> SndIdle("off")]
    /\ wl = [p \in WListeners |-> WlIdle("off")]
    /\ cw = NoChainWorkers
    /\ stream = NoStreams

\* a call of Node::get_tx
GetTxCall(address, amount, label) ==
    /\ call = NoCall
    /\ call' = [fn |-> "get_tx", address |-> address, amount |-> amount, label |-> label,
                out |-> get_tx(address, amount, label)]
    /\ UNCHANGED <<dbVars, nodeVars, procVars, credits, resWrites, cw, stream>>

XNext ==
    \E address \in {"ext", "a1"}, amount \in 1..2, label \in WalletLabels \cup {<<"w1", 3>>} :
        GetTxCall(address, amount, label)

SpecGetTx == XInit /\ [][XNext]_vars

\* the outputs of the wallet that a call asks for
Asked ==
    {k \in DOMAIN chain :
        /\ chain[k].label = call.label
        /\ chain[k].address = call.address
        /\ chain[k].amount = call.amount}

\* C37: node.get_tx(address, amount, label) returns the output with that label,
\* address and amount whenever the wallet contains one, whether it is
\* unconfirmed or confirmed at any height >= first_block, including a
\* transaction mined more than one stride (4320 blocks) after first_block when
\* earlier strides contain no transaction with that label; and the stride
\* search always terminates.
C37_GetTxFinds ==
    call.fn = "get_tx" =>
        IF Asked = {} THEN call.out = None
        ELSE \E k \in Asked : call.out = Some(TxOutOf(k))

----------------------------------------------------------------------------
(* Properties of the calls of node.pay_invoice *)

\* an iteration of the send block after the first does not reach the node
C38_Step ==
    \A p \in Payers :
        pay[p].pc = "send" /\ pay[p].i > 1 /\ pay'[p] # pay[p] =>
            /\ paid'[p] = paid[p]
            /\ pay'[p].pc = "done"

\* C38: within one payment::send call, node.pay_invoice is invoked at most once
\* over all iterations of the send retry block: after pay_invoice has returned
\* (Ok, Unknown or any other error) no retry caused by ConflictError calls it
\* again.
C38_PaidOnce == [](\A p \in Payers : paid[p] <= 1) /\ [][C38_Step]_vars

\* the send block was entered again after a conflict, and the node was called
\* once
C38_Witness ==
    /\ pay["p1"].pc = "done"
    /\ pay["p1"].i = 2
    /\ pay["p1"].result = "panic"
    /\ paid["p1"] = 1

----------------------------------------------------------------------------
(* Properties of the chain tip and the deliveries to the listener *)

\* the confirmed outputs of the wallet in the blocks from..(to - 1)
ConfirmedBetween(from, to) ==
    {k \in DOMAIN chain :
        /\ IsSome(chain[k].block_height)
        /\ Unwrap(chain[k].block_height) >= from
        /\ Unwrap(chain[k].block_height) < to}

C39_Step ==
    \A p \in WListeners :
        \* the chain tip moves only after every output of the query was processed
        \* and the last call returned
        /\ cw[p].pc # "off" /\ cw'[p].chain_tip # cw[p].chain_tip =>
              /\ cw[p].pc = "process" /\ cw[p].todo = {}
              /\ wl[p].pc = "idle" /\ wl[p].result \notin ListenerPanics
              \* and every confirmed output that it passes was in that query
              /\ \A k \in ConfirmedBetween(cw[p].chain_tip, cw'[p].chain_tip) :
                    TxOutOf(k) \in cw[p].batch
        \* an output leaves the batch only through Listener::process
        /\ cw[p].pc = "process" /\ cw'[p].pc = "process" /\ cw'[p].todo # cw[p].todo =>
              /\ wl[p].pc = "idle" /\ wl[p].result \notin ListenerPanics
              /\ \E t \in cw[p].todo :
                    /\ cw'[p].todo = cw[p].todo \ {t}
                    /\ wl'[p].pc = "confirm" => wl'[p].tx_out = t
        \* a panic ends the run with the chain tip where it was
        /\ cw[p].pc = "process" /\ wl[p].result \in ListenerPanics /\ cw'[p] # cw[p] =>
              /\ cw'[p].pc = "sleep"
              /\ cw'[p].chain_tip = cw[p].chain_tip
        \* the next run queries from the chain tip again
        /\ cw[p].pc = "sleep" /\ cw'[p] # cw[p] =>
              cw'[p].pc = "idle" /\ cw'[p].chain_tip = cw[p].chain_tip
        /\ cw[p].pc = "idle" /\ cw'[p] # cw[p] =>
              /\ cw'[p].chain_tip = cw[p].chain_tip
              /\ cw'[p].batch = {TxOutOf(k) : k \in get_tx_outs(cw[p].chain_tip, 10)}
              /\ cw'[p].todo = cw'[p].batch

\* C39: the chain tip of the chain listener moves past a block height only
\* after listener.process has returned without panicking for every output
\* returned by that query; if process panics, the chain tip is unchanged and the
\* next run queries the same range again, so every confirmed output at a height
\* at or above the chain tip is delivered to the listener at least once before
\* the tip passes it.
C39_TipAfterDelivery == [][C39_Step]_vars

\* the listener has panicked on the confirmed output of the withdrawal while
\* another output of the query is not yet delivered
C39_Witness ==
    /\ cw["l1"].pc = "process"
    /\ wl["l1"].result \in ListenerPanics
    /\ cw["l1"].todo # {}
    /\ ConfirmedBetween(cw["l1"].chain_tip, FIRST_BLOCK + 2 * NUM_BLOCKS) # {}

----------------------------------------------------------------------------
(* api/rate_limit.rs: RateLimit, the map of counters and the tasks that      *)
(* decrement_later has spawned and that still sleep                          *)

MaxRateLimit == 3

\* RateLimit::new
RateLimit_new(limit) ==
    [fn |-> "new", limit |-> limit, counter |-> <<>>, pending |-> [u \in Users |-> 0],
     vacant |-> FALSE, underflow |-> FALSE, user_id |-> "", out |-> FALSE]

RateLimit_limit_counting_first(rl, user_id) ==
    IF user_id \in DOMAIN rl.counter
    THEN IF rl.counter[user_id] >= rl.limit
         THEN [rl EXCEPT !.fn = "limit", !.user_id = user_id, !.out = TRUE]
         ELSE [rl EXCEPT !.fn = "limit", !.user_id = user_id, !.out = FALSE,
                         !.counter[user_id] = @ + 1, !.pending[user_id] = @ + 1]
    ELSE [rl EXCEPT !.fn = "limit", !.user_id = user_id, !.out = FALSE,
                    !.counter = (user_id :> 1) @@ rl.counter]

\* RateLimit::limit, under the lock of the entry; decrement_later leaves a
\* sleeping task
RateLimit_limit(rl, user_id) ==
    IF user_id \in DOMAIN rl.counter
    THEN IF rl.counter[user_id] >= rl.limit
         THEN [rl EXCEPT !.fn = "limit", !.user_id = user_id, !.out = TRUE]
         ELSE [rl EXCEPT !.fn = "limit", !.user_id = user_id, !.out = FALSE,
                         !.counter[user_id] = @ + 1, !.pending[user_id] = @ + 1]
    ELSE [rl EXCEPT !.fn = "limit", !.user_id = user_id, !.out = FALSE,
                    !.counter = (user_id :> 0) @@ rl.counter]

\* RateLimit::decrement_later, the task after its sleep, under the lock of the
\* entry; a subtraction from 0 panics or wraps, by the build
decrement(rl, user_id) ==
    LET woken == [rl EXCEPT !.fn = "decrement", !.user_id = user_id,
                            !.pending[user_id] = @ - 1]
    IN IF user_id \notin DOMAIN rl.counter THEN [woken EXCEPT !.vacant = TRUE]
       ELSE IF rl.counter[user_id] = 0 THEN [woken EXCEPT !.underflow = TRUE]
       ELSE IF rl.counter[user_id] = 1
       THEN [woken EXCEPT !.counter = [u \in DOMAIN rl.counter \ {user_id} |-> rl.counter[u]]]
       ELSE [woken EXCEPT !.counter[user_id] = @ - 1]

QInit == AllOff /\ call \in {RateLimit_new(limit) : limit \in 0..MaxRateLimit}

\* a request of the user passes the rate limit guard
Limit(user_id) ==
    /\ call' = RateLimit_limit(call, user_id)
    /\ UNCHANGED <<dbVars, nodeVars, procVars, credits, resWrites, cw, stream>>

\* the sleep of a task of the user is over
DecrementLater(user_id) ==
    /\ call.pending[user_id] > 0
    /\ call' = decrement(call, user_id)
    /\ UNCHANGED <<dbVars, nodeVars, procVars, credits, resWrites, cw, stream>>

QNext == \E user_id \in Users : Limit(user_id) \/ DecrementLater(user_id)

SpecRateLimit == QInit /\ [][QNext]_vars

\* the counter of every user is the number of its sleeping tasks
C40_State ==
    /\ \A u \in Users :
          /\ u \in DOMAIN call.counter => call.counter[u] = call.pending[u]
          /\ u \notin DOMAIN call.counter => call.pending[u] = 0
          /\ call.pending[u] >= 0
    /\ ~call.underflow
    /\ ~call.vacant

\* a request is rejected exactly when the user has an entry at the limit, and
\* a rejected request changes nothing
C40_Step ==
    \A u \in Users :
        Limit(u) =>
            /\ call'.out <=> (u \in DOMAIN call.counter /\ call.counter[u] >= call.limit)
            /\ call'.out => call'.counter = call.counter /\ call'.pending = call.pending

\* C40: for every user and every interleaving of RateLimit::limit calls and
\* timer expirations, the counter of the user in the map equals the number of
\* decrement tasks still pending for that user: the counter never underflows,
\* the 'entry should not be vacant' branch of decrement_later is never reached,
\* a rejected request changes nothing, and a request is rejected exactly when
\* an entry exists with counter >= limit.
C40_CounterIsPending == []C40_State /\ [][C40_Step]_vars

\* a request of u1 was rejected at the limit while tasks of both users sleep
C40_Witness ==
    /\ call.fn = "limit" /\ call.out /\ call.user_id = "u1"
    /\ call.limit = MaxRateLimit
    /\ call.pending["u1"] = MaxRateLimit
    /\ call.pending["u2"] = 1

====
